---- MODULE Spec2Model ----
(***************************************************************************)
(* ALAC encoder (encoders/alac.c) and decoder (decoders/alac.c) of         *)
(* python-audio-tools: frameset framing, frame selection, channel          *)
(* decorrelation, adaptive predictor and adaptive residual coder.          *)
(*                                                                         *)
(* Bit streams are sequences of 0/1, most significant bit first.  C array  *)
(* index i is sequence index i + 1.                                        *)
(***************************************************************************)
EXTENDS Integers, Sequences, FiniteSets, TLC

(***************************************************************************)
(* Program constants                                                       *)
(***************************************************************************)
INTERLACING_SHIFT == 2
initial_history == 10
history_multiplier == 40
maximum_k == 14
minimum_interlacing_leftweight == 0
maximum_interlacing_leftweight == 4
\* stands for UINT_MAX, which is beyond the integers of the model checker;
\* only its order against the bit lengths of recorders is used
UINT_MAX == 2147483647
MIN_COMPRESSED_FRAMES == 10
MAX_COEFFICIENTS == 31

(***************************************************************************)
(* Bounds of the model                                                     *)
(***************************************************************************)
\* encoder option block_size and the stream's max_samples_per_frame
BlockSize == 11
\* length of a block too short for a compressed frame
ShortFrames == 5
\* channel counts 1..MaxChannels (from 9 on write_frameset's default case)
MaxChannels == 9

MIN(a, b) == IF a < b THEN a ELSE b

(***************************************************************************)
(* Bit I/O (bitstream.h): write, write_signed, write_unary, byte_align,    *)
(* read, read_signed, the unary Huffman table of alac_residual.h           *)
(***************************************************************************)
RECURSIVE write(_, _)
write(count, value) ==
    IF count = 0 THEN <<>>
    ELSE write(count - 1, value \div 2) \o <<value % 2>>

\* two's complement in count bits
write_signed(count, value) == write(count, value % (2 ^ count))

RECURSIVE Ones(_)
Ones(n) == IF n = 0 THEN <<>> ELSE <<1>> \o Ones(n - 1)

\* write_unary(bs, 0, value): value 1 bits, then the stop bit 0
write_unary(value) == Ones(value) \o <<0>>

RECURSIVE Zeros(_)
Zeros(n) == IF n = 0 THEN <<>> ELSE <<0>> \o Zeros(n - 1)

byte_align(bits) == bits \o Zeros((8 - (Len(bits) % 8)) % 8)

\* the bit at offset pos (0-based); a read past the end is flagged by the
\* caller through the final position (br_try/br_abort), its value is 0
BitAt(bits, pos) == IF pos < Len(bits) THEN bits[pos + 1] ELSE 0

RECURSIVE read(_, _, _)
read(bits, pos, count) ==
    IF count = 0 THEN 0
    ELSE 2 * read(bits, pos, count - 1) + BitAt(bits, pos + count - 1)

read_signed(bits, pos, count) ==
    LET v == read(bits, pos, count)
    IN  IF v >= 2 ^ (count - 1) THEN v - 2 ^ count ELSE v

\* number of leading 1 bits at pos, counted up to 9
RECURSIVE LeadingOnes(_, _, _)
LeadingOnes(bits, pos, n) ==
    IF n = 9 \/ BitAt(bits, pos + n) = 0 THEN n
    ELSE LeadingOnes(bits, pos, n + 1)

\* read_huffman_code(br, MSB): 0..8 for that many 1 bits and a 0, -1 for nine
\* 1 bits; [val, pos]
read_huffman_code(bits, pos) ==
    LET n == LeadingOnes(bits, pos, 0)
    IN  IF n = 9 THEN [val |-> -1, pos |-> pos + 9]
        ELSE [val |-> n, pos |-> pos + n + 1]

(***************************************************************************)
(* Small integer helpers of both files                                     *)
(***************************************************************************)
SIGN_ONLY(value) == IF value > 0 THEN 1 ELSE IF value < 0 THEN -1 ELSE 0

\* a faulty truncation, to be told apart from TRUNCATE_BITS: the low bits
\* without the sign extension
TRUNCATE_BITS_unsigned(value, bits) == value % (2 ^ bits)

TRUNCATE_BITS(value, bits) ==
    LET truncated == value % (2 ^ bits)
    IN  IF truncated >= 2 ^ (bits - 1) THEN truncated - 2 ^ bits
        ELSE truncated

\* position of the highest set bit; -1 for 0 (decoder's LOG2; the encoder's
\* asserts value > 0)
RECURSIVE LOG2(_)
LOG2(value) == IF value <= 0 THEN -1 ELSE 1 + LOG2(value \div 2)

(***************************************************************************)
(* Encoder: adaptive residual coder                                        *)
(***************************************************************************)
\* a faulty code, to be told apart from write_residual: k bits follow the
\* unary part even when LSB is 0
write_residual_full_lsb(value, k, sample_size) ==
    IF value \div ((2 ^ k) - 1) > 8
    THEN write(9, 511) \o write(sample_size, value)
    ELSE write_unary(value \div ((2 ^ k) - 1))
         \o (IF k > 1 THEN write(k, (value % ((2 ^ k) - 1)) + 1) ELSE <<>>)

write_residual(value, k, sample_size) ==
    LET MSB == value \div ((2 ^ k) - 1)
        LSB == value % ((2 ^ k) - 1)
    IN  IF MSB > 8 THEN write(9, 511) \o write(sample_size, value)
        ELSE write_unary(MSB) \o
             (IF k > 1
              THEN IF LSB > 0 THEN write(k, LSB + 1) ELSE write(k - 1, 0)
              ELSE <<>>)

\* unsigned_i of encode_residuals
Folded(r) == IF r >= 0 THEN 2 * r ELSE (2 * (-r)) - 1

\* a faulty count, to be told apart from CountZeroes: the run stops after
\* one zero
CountOneZero(residuals, i) ==
    IF i < Len(residuals) /\ residuals[i + 1] = 0 THEN 1 ELSE 0

\* the inner while loop: consecutive zero residuals from index i
RECURSIVE CountZeroes(_, _)
CountZeroes(residuals, i) ==
    IF i < Len(residuals) /\ residuals[i + 1] = 0
    THEN 1 + CountZeroes(residuals, i + 1)
    ELSE 0

\* the while loop of encode_residuals from index i; overflow is the longjmp
RECURSIVE encode_residuals_from(_, _, _, _, _, _)
encode_residuals_from(sample_size, residuals, i, history, sign_modifier, acc) ==
    IF i >= Len(residuals) THEN [overflow |-> FALSE, bits |-> acc]
    ELSE
      LET unsigned_i == Folded(residuals[i + 1])
      IN
      IF unsigned_i >= 2 ^ sample_size THEN [overflow |-> TRUE, bits |-> acc]
      ELSE
        LET k == MIN(LOG2((history \div 512) + 3), maximum_k)
            acc1 == acc \o write_residual(unsigned_i - sign_modifier,
                                          k, sample_size)
        IN
        IF unsigned_i <= 65535 THEN
          LET h1 == history + (unsigned_i * history_multiplier)
                            - ((history * history_multiplier) \div 512)
          IN
          IF h1 < 128 /\ i + 1 < Len(residuals) THEN
            LET k2 == MIN((7 - LOG2(h1)) + ((h1 + 16) \div 64), maximum_k)
                zeroes == CountZeroes(residuals, i + 1)
            IN  encode_residuals_from(sample_size, residuals,
                    i + 1 + zeroes, 0,
                    IF zeroes < 65535 THEN 1 ELSE 0,
                    acc1 \o write_residual(zeroes, k2, 16))
          ELSE encode_residuals_from(sample_size, residuals, i + 1, h1, 0,
                                     acc1)
        ELSE encode_residuals_from(sample_size, residuals, i + 1, 65535, 0,
                                   acc1)

encode_residuals(sample_size, residuals) ==
    encode_residuals_from(sample_size, residuals, 0, initial_history, 0, <<>>)

(***************************************************************************)
(* Encoder: channel decorrelation                                          *)
(***************************************************************************)
\* a faulty decorrelation, to be told apart from correlate_channels: the
\* difference is stored as the first channel
correlate_channels_swapped(channels, interlacing_shift, interlacing_leftweight) ==
    IF interlacing_leftweight > 0
    THEN << [i \in 1..Len(channels[1]) |-> channels[1][i] - channels[2][i]],
            [i \in 1..Len(channels[1]) |->
                channels[2][i]
                + (((channels[1][i] - channels[2][i]) * interlacing_leftweight)
                   \div (2 ^ interlacing_shift))] >>
    ELSE << channels[1], channels[2] >>

\* <<correlated0, correlated1>>
correlate_channels(channels, interlacing_shift, interlacing_leftweight) ==
    LET channel0 == channels[1]
        channel1 == channels[2]
        frame_count == Len(channel0)
        weighted(i) == ((channel0[i] - channel1[i]) * interlacing_leftweight)
                           \div (2 ^ interlacing_shift)
    IN  IF interlacing_leftweight > 0
        THEN << [i \in 1..frame_count |-> channel1[i] + weighted(i)],
                [i \in 1..frame_count |-> channel0[i] - channel1[i]] >>
        ELSE << channel0, channel1 >>

(***************************************************************************)
(* Encoder: adaptive predictor                                             *)
(***************************************************************************)
\* lpc_sum's loop: sum over j < order of coefficients[j] *
\* (samples[i - j - 1] - base_sample)
RECURSIVE lpc_terms(_, _, _, _, _)
lpc_terms(samples, i, base_sample, coefficients, j) ==
    IF j >= Len(coefficients) THEN 0
    ELSE coefficients[j + 1] * (samples[(i - j - 1) + 1] - base_sample)
         + lpc_terms(samples, i, base_sample, coefficients, j + 1)

\* the coefficient adaptation loop entered with error > 0 (positive) or
\* error < 0, from index j; the adapted coefficients
RECURSIVE adapt_coefficients(_, _, _, _, _, _, _)
adapt_coefficients(samples, i, order, coefficients, error, positive, j) ==
    IF j >= order THEN coefficients
    ELSE
      LET diff == samples[(i - order - 1) + 1] - samples[(i - order + j) + 1]
          sign == SIGN_ONLY(diff)
          c1 == [coefficients EXCEPT ![order - j] =
                    IF positive THEN @ - sign ELSE @ + sign]
          e1 == IF positive
                THEN error - (((diff * sign) \div 512) * (j + 1))
                ELSE error - (((diff * (-sign)) \div 512) * (j + 1))
      IN  IF (positive /\ e1 <= 0) \/ (~positive /\ e1 >= 0) THEN c1
          ELSE adapt_coefficients(samples, i, order, c1, e1, positive, j + 1)

\* a faulty predictor, to be told apart from predict_residuals: first
\* differences all the way
first_differences_from(sample_size, samples, order, i, coefficients, residuals) ==
    residuals \o [k \in 1..(Len(samples) - i) |->
                     TRUNCATE_BITS(samples[i + k] - samples[(i + k) - 1],
                                   sample_size)]

\* the predicted part of calculate_residuals, from index i
RECURSIVE predict_residuals(_, _, _, _, _, _)
predict_residuals(sample_size, samples, order, i, coefficients, residuals) ==
    IF i >= Len(samples) THEN residuals
    ELSE
      LET base_sample == samples[(i - order - 1) + 1]
          lpc_sum == (256 + lpc_terms(samples, i, base_sample,
                                      coefficients, 0)) \div 512
          error == TRUNCATE_BITS(samples[i + 1] - base_sample - lpc_sum,
                                 sample_size)
          c1 == IF error > 0
                THEN adapt_coefficients(samples, i, order, coefficients,
                                        error, TRUE, 0)
                ELSE IF error < 0
                THEN adapt_coefficients(samples, i, order, coefficients,
                                        error, FALSE, 0)
                ELSE coefficients
      IN  predict_residuals(sample_size, samples, order, i + 1, c1,
                            Append(residuals, error))

\* residuals[0] verbatim, residuals[1..order] first differences, the rest
\* predicted with adapting coefficients (order < 31)
calculate_residuals(sample_size, samples, order, qlp_coefficients) ==
    LET warm_up == [i \in 1..(order + 1) |->
                      IF i = 1 THEN samples[1]
                      ELSE TRUNCATE_BITS(samples[i] - samples[i - 1],
                                         sample_size)]
    IN  predict_residuals(sample_size, samples, order, order + 1,
                          qlp_coefficients, warm_up)

(***************************************************************************)
(* Encoder: window, autocorrelation, LPC order selection                   *)
(* encoder is struct alac_context: options.block_size, bits_per_sample,    *)
(* and lp, the quantized coefficients the floating-point stage             *)
(* (compute_lp_coefficients, quantize_coefficients) returns at orders 4    *)
(* and 8, which the model draws from LpcChoices.                           *)
(***************************************************************************)
\* window[i] = 0.0 in tukey_window(0.5, block_size, window): the cosine's
\* argument is 0 at i = 0 and at i = block_size - 1
tukey_window_is_zero(block_size, i) ==
    LET Np == (block_size \div 4) - 1
    IN  IF i <= Np THEN i = 0
        ELSE IF i >= block_size - Np - 1 THEN block_size - i - 1 = 0
        ELSE FALSE

\* autocorrelated[0] != 0.0: a sum of squares of samples[i] * window[i]
autocorrelated0_nonzero(block_size, samples) ==
    \E i \in 0..(Len(samples) - 1) :
        samples[i + 1] # 0 /\ ~tukey_window_is_zero(block_size, i)

\* *order when the autocorrelation is not zero
select_order(bits_written4, bits_written8) ==
    IF bits_written4 < bits_written8 + 64 THEN 4 ELSE 8

\* a faulty hand-back, to be told apart from best_order: the residual block
\* of order 4 goes with whichever order was selected
mixed_order(lp, residual_block4, residual_block8) ==
    [overflow |-> residual_block4.overflow \/ residual_block8.overflow,
     nonzero |-> TRUE,
     order |-> IF Len(residual_block4.bits) < Len(residual_block8.bits) + 64
               THEN 4 ELSE 8,
     qlp_coefficients |->
         IF Len(residual_block4.bits) < Len(residual_block8.bits) + 64
         THEN lp.q4 ELSE lp.q8,
     residual |-> residual_block4.bits,
     residual_block4 |-> residual_block4.bits,
     residual_block8 |-> residual_block8.bits]

\* what compute_coefficients hands back when the autocorrelation is not
\* zero: [overflow, nonzero, order, qlp_coefficients, residual,
\* residual_block4, residual_block8]
best_order(lp, residual_block4, residual_block8) ==
    LET order == select_order(Len(residual_block4.bits),
                              Len(residual_block8.bits))
    IN  [overflow |-> residual_block4.overflow \/ residual_block8.overflow,
         nonzero |-> TRUE,
         order |-> order,
         qlp_coefficients |-> IF order = 4 THEN lp.q4 ELSE lp.q8,
         residual |-> IF order = 4 THEN residual_block4.bits
                      ELSE residual_block8.bits,
         residual_block4 |-> residual_block4.bits,
         residual_block8 |-> residual_block8.bits]

\* what it hands back in the special case "all samples are 0"
zero_order(qlp_coefficients, residual) ==
    [overflow |-> residual.overflow,
     nonzero |-> FALSE,
     order |-> 4,
     qlp_coefficients |-> qlp_coefficients,
     residual |-> residual.bits,
     residual_block4 |-> <<>>,
     residual_block8 |-> <<>>]

\* a faulty compute_coefficients, to be told apart from the real one: no
\* special case for a zero autocorrelation
compute_coefficients_always(encoder, samples, sample_size) ==
    [overflow |-> encode_residuals(sample_size,
                      calculate_residuals(sample_size, samples, 4,
                                          encoder.lp.q4)).overflow,
     nonzero |-> TRUE,
     order |-> 4,
     qlp_coefficients |-> encoder.lp.q4,
     residual |-> encode_residuals(sample_size,
                      calculate_residuals(sample_size, samples, 4,
                                          encoder.lp.q4)).bits,
     residual_block4 |-> <<>>,
     residual_block8 |-> <<>>]

compute_coefficients(encoder, samples, sample_size) ==
    IF autocorrelated0_nonzero(encoder.block_size, samples)
    THEN best_order(encoder.lp,
             encode_residuals(sample_size,
                 calculate_residuals(sample_size, samples, 4, encoder.lp.q4)),
             encode_residuals(sample_size,
                 calculate_residuals(sample_size, samples, 8, encoder.lp.q8)))
    ELSE zero_order(<<0, 0, 0, 0>>,
             encode_residuals(sample_size,
                 calculate_residuals(sample_size, samples, 4, <<0, 0, 0, 0>>)))

RECURSIVE write_coefficients(_, _)
write_coefficients(qlp_coefficients, i) ==
    IF i >= Len(qlp_coefficients) THEN <<>>
    ELSE write_signed(16, qlp_coefficients[i + 1])
         \o write_coefficients(qlp_coefficients, i + 1)

write_subframe_header(order, qlp_coefficients) ==
    write(4, 0) \o write(4, 9) \o write(3, 4) \o write(5, order)
    \o write_coefficients(SubSeq(qlp_coefficients, 1, order), 0)

(***************************************************************************)
(* Encoder: frames                                                         *)
(***************************************************************************)
\* for (i ...) for (c ...) bs->write_signed(bits_per_sample, channels[c][i])
RECURSIVE write_interleaved(_, _, _, _)
write_interleaved(bits_per_sample, channels, i, c) ==
    IF i >= Len(channels[1]) THEN <<>>
    ELSE IF c >= Len(channels)
    THEN write_interleaved(bits_per_sample, channels, i + 1, 0)
    ELSE write_signed(bits_per_sample, channels[c + 1][i + 1])
         \o write_interleaved(bits_per_sample, channels, i, c + 1)

write_uncompressed_frame(encoder, channels) ==
    write(16, 0)
    \o (IF Len(channels[1]) = encoder.block_size THEN write(1, 0)
        ELSE write(1, 1))
    \o write(2, 0)
    \o write(1, 1)
    \o (IF Len(channels[1]) # encoder.block_size
        THEN write(32, Len(channels[1])) ELSE <<>>)
    \o write_interleaved(encoder.bits_per_sample, channels, 0, 0)

\* for (i < LSBs->len) bs->write(uncompressed_LSBs * 8, LSBs[i])
RECURSIVE write_LSBs(_, _, _)
write_LSBs(uncompressed_LSBs, LSBs, i) ==
    IF uncompressed_LSBs = 0 \/ i >= Len(LSBs) THEN <<>>
    ELSE write(uncompressed_LSBs * 8, LSBs[i + 1])
         \o write_LSBs(uncompressed_LSBs, LSBs, i + 1)

\* a faulty header, to be told apart from compressed_frame_header: it never
\* carries a sample count
compressed_frame_header_uncounted(encoder, uncompressed_LSBs, interlacing_shift, interlacing_leftweight, channels) ==
    write(16, 0) \o write(1, 0) \o write(2, uncompressed_LSBs) \o write(1, 0)
    \o write(8, interlacing_shift) \o write(8, interlacing_leftweight)

\* the 20 or 52 header bits of a compressed frame and its two interlacing
\* bytes
compressed_frame_header(encoder, uncompressed_LSBs, interlacing_shift, interlacing_leftweight, channels) ==
    write(16, 0)
    \o (IF Len(channels[1]) = encoder.block_size THEN write(1, 0)
        ELSE write(1, 1))
    \o write(2, uncompressed_LSBs)
    \o write(1, 0)
    \o (IF Len(channels[1]) # encoder.block_size
        THEN write(32, Len(channels[1])) ELSE <<>>)
    \o write(8, interlacing_shift)
    \o write(8, interlacing_leftweight)

\* [overflow, bits, sub]: bits is what reached bs (up to the longjmp when
\* overflow), sub the per-channel results of compute_coefficients
non_interlaced_bits(header, LSB_bits, sub) ==
    IF sub.overflow
    THEN [overflow |-> TRUE, bits |-> header, sub |-> <<sub>>]
    ELSE [overflow |-> FALSE,
          bits |-> header
              \o write_subframe_header(sub.order, sub.qlp_coefficients)
              \o LSB_bits
              \o sub.residual,
          sub |-> <<sub>>]

write_non_interlaced_frame(encoder, uncompressed_LSBs, LSBs, channels) ==
    non_interlaced_bits(
        compressed_frame_header(encoder, uncompressed_LSBs, 0, 0, channels),
        write_LSBs(uncompressed_LSBs, LSBs, 0),
        compute_coefficients(encoder, channels[1],
            encoder.bits_per_sample - (uncompressed_LSBs * 8)))

interlaced_bits(header, LSB_bits, sub0, sub1) ==
    IF sub0.overflow \/ sub1.overflow
    THEN [overflow |-> TRUE, bits |-> header, sub |-> <<sub0, sub1>>]
    ELSE [overflow |-> FALSE,
          bits |-> header
              \o write_subframe_header(sub0.order, sub0.qlp_coefficients)
              \o write_subframe_header(sub1.order, sub1.qlp_coefficients)
              \o LSB_bits
              \o sub0.residual
              \o sub1.residual,
          sub |-> <<sub0, sub1>>]

write_interlaced_frame(encoder, uncompressed_LSBs, LSBs, interlacing_shift, interlacing_leftweight, channels) ==
    interlaced_bits(
        compressed_frame_header(encoder, uncompressed_LSBs, interlacing_shift,
                                interlacing_leftweight, channels),
        write_LSBs(uncompressed_LSBs, LSBs, 0),
        compute_coefficients(encoder,
            correlate_channels(channels, interlacing_shift,
                               interlacing_leftweight)[1],
            (encoder.bits_per_sample - (uncompressed_LSBs * 8)) + 1),
        compute_coefficients(encoder,
            correlate_channels(channels, interlacing_shift,
                               interlacing_leftweight)[2],
            (encoder.bits_per_sample - (uncompressed_LSBs * 8)) + 1))

\* a faulty comparison, to be told apart from is_smaller: a candidate as
\* long as the best one replaces it
is_not_larger(bits_written, best_interlaced_frame_bits) ==
    bits_written <= best_interlaced_frame_bits

\* whether the candidate replaces the best one so far
is_smaller(bits_written, best_interlaced_frame_bits) ==
    bits_written < best_interlaced_frame_bits

\* One pass of the leftweight loop of write_compressed_frame after the
\* candidate frame was written to the recorder st.interlaced names.
\* st.rec holds the contents of the encoder's two recorders; st.interlaced
\* and st.best name the recorder each local pointer refers to
\* (recorder_swap exchanges the pointers); st.bits is
\* best_interlaced_frame_bits; st.tried logs the candidates written.
record_candidate(st, leftweight, frame) ==
    LET swap == ~frame.overflow /\ is_smaller(Len(frame.bits), st.bits)
    IN  [overflow |-> frame.overflow,
         rec |-> [st.rec EXCEPT ![st.interlaced] = frame.bits],
         interlaced |-> IF swap THEN st.best ELSE st.interlaced,
         best |-> IF swap THEN st.interlaced ELSE st.best,
         bits |-> IF swap THEN Len(frame.bits) ELSE st.bits,
         tried |-> Append(st.tried, [leftweight |-> leftweight,
                                     bits |-> Len(frame.bits),
                                     sub |-> frame.sub])]

\* the leftweight loop; it ends early when a candidate raised the residual
\* overflow
RECURSIVE try_leftweights(_, _, _, _, _, _)
try_leftweights(encoder, uncompressed_LSBs, LSBs, channels, leftweight, st) ==
    IF st.overflow \/ leftweight > maximum_interlacing_leftweight THEN st
    ELSE try_leftweights(encoder, uncompressed_LSBs, LSBs, channels,
             leftweight + 1,
             record_candidate(st, leftweight,
                 write_interlaced_frame(encoder, uncompressed_LSBs, LSBs,
                     INTERLACING_SHIFT, leftweight, channels)))

\* a faulty order, to be told apart from extract_LSBs: the low bits of a
\* whole channel, then those of the next
extract_LSBs_by_channel(bits_per_sample, channels, i, c) ==
    [x \in 1..(Len(channels) * Len(channels[1])) |->
        channels[((x - 1) \div Len(channels[1])) + 1]
                [((x - 1) % Len(channels[1])) + 1]
        % (2 ^ (bits_per_sample - 16))]

\* LSBs: for (i ...) for (c ...) channels[c][i] & ((1 << (bps - 16)) - 1)
RECURSIVE extract_LSBs(_, _, _, _)
extract_LSBs(bits_per_sample, channels, i, c) ==
    IF i >= Len(channels[1]) THEN <<>>
    ELSE IF c >= Len(channels)
    THEN extract_LSBs(bits_per_sample, channels, i + 1, 0)
    ELSE <<channels[c + 1][i + 1] % (2 ^ (bits_per_sample - 16))>>
         \o extract_LSBs(bits_per_sample, channels, i, c + 1)

\* channels_MSB: channels[c][i] >> (bits_per_sample - 16)
extract_MSBs(bits_per_sample, channels) ==
    [c \in 1..Len(channels) |->
        [i \in 1..Len(channels[1]) |->
            channels[c][i] \div (2 ^ (bits_per_sample - 16))]]

\* [overflow, bits, rec, tried] of a 1-channel frame
non_interlaced_result(rec, frame) ==
    [overflow |-> frame.overflow, bits |-> frame.bits, rec |-> rec,
     tried |-> <<[leftweight |-> 0, bits |-> Len(frame.bits),
                  sub |-> frame.sub]>>]

\* [overflow, bits, rec, tried] of a 2-channel frame: best_interlaced_frame
\* is copied to bs
interlaced_result(search) ==
    [overflow |-> search.overflow, bits |-> search.rec[search.best],
     rec |-> search.rec, tried |-> search.tried]

\* [overflow, bits, rec, tried]: bits is what reached the compressed_frame
\* recorder, rec the two interlacing recorders afterwards
write_compressed_frame(encoder, rec, channels) ==
    LET bits_per_sample == encoder.bits_per_sample
        uncompressed_LSBs ==
            IF bits_per_sample <= 16 THEN 0 ELSE (bits_per_sample - 16) \div 8
        LSBs == IF bits_per_sample <= 16 THEN <<>>
                ELSE extract_LSBs(bits_per_sample, channels, 0, 0)
        predicted == IF bits_per_sample <= 16 THEN channels
                     ELSE extract_MSBs(bits_per_sample, channels)
    IN  IF Len(channels) = 1
        THEN non_interlaced_result(rec,
                 write_non_interlaced_frame(encoder, uncompressed_LSBs, LSBs,
                                            predicted))
        ELSE interlaced_result(
                 try_leftweights(encoder, uncompressed_LSBs, LSBs, predicted,
                     minimum_interlacing_leftweight,
                     [overflow |-> FALSE, rec |-> rec,
                      interlaced |-> "interlaced_frame",
                      best |-> "best_interlaced_frame",
                      bits |-> UINT_MAX, tried |-> <<>>]))

\* a faulty overflow branch, to be told apart from
\* compressed_or_uncompressed: what the attempt had recorded is copied out
\* ahead of the uncompressed frame
compressed_and_uncompressed(encoder, channels, compressed_frame) ==
    [bits |-> write(3, Len(channels) - 1)
              \o compressed_frame.bits
              \o (IF ~compressed_frame.overflow THEN <<>>
                  ELSE write_uncompressed_frame(encoder, channels)),
     rec |-> compressed_frame.rec,
     attempt |-> TRUE,
     overflow |-> compressed_frame.overflow,
     tried |-> compressed_frame.tried]

\* the setjmp branches of write_frame: the recorded compressed frame is
\* copied to bs, or after a residual overflow an uncompressed frame is
\* written instead
compressed_or_uncompressed(encoder, channels, compressed_frame) ==
    [bits |-> write(3, Len(channels) - 1)
              \o (IF ~compressed_frame.overflow THEN compressed_frame.bits
                  ELSE write_uncompressed_frame(encoder, channels)),
     rec |-> compressed_frame.rec,
     attempt |-> TRUE,
     overflow |-> compressed_frame.overflow,
     tried |-> compressed_frame.tried]

\* a faulty write_frame, to be told apart from the real one: blocks of 9
\* samples are compressed too
write_frame_from_nine(encoder, rec, channels) ==
    IF Len(channels[1]) >= MIN_COMPRESSED_FRAMES - 1
    THEN compressed_or_uncompressed(encoder, channels,
             write_compressed_frame(encoder, rec, channels))
    ELSE [bits |-> write(3, Len(channels) - 1)
                   \o write_uncompressed_frame(encoder, channels),
          rec |-> rec, attempt |-> FALSE, overflow |-> FALSE,
          tried |-> <<>>]

\* [bits, rec, attempt, overflow, tried]: bits is what reached bs
write_frame(encoder, rec, channels) ==
    IF Len(channels[1]) >= MIN_COMPRESSED_FRAMES
    THEN compressed_or_uncompressed(encoder, channels,
             write_compressed_frame(encoder, rec, channels))
    ELSE [bits |-> write(3, Len(channels) - 1)
                   \o write_uncompressed_frame(encoder, channels),
          rec |-> rec, attempt |-> FALSE, overflow |-> FALSE,
          tried |-> <<>>]

\* a faulty layout, to be told apart from frameset_layout: one frame a
\* channel in index order from three channels on
frameset_layout_by_index(len) ==
    IF len = 2 THEN << <<0, 1>> >> ELSE [i \in 1..len |-> <<i - 1>>]

\* the switch of write_frameset: the channel indices each write_frame call
\* extracts, in call order
frameset_layout(len) ==
    CASE len = 1 -> << <<0>> >>
      [] len = 2 -> << <<0, 1>> >>
      [] len = 3 -> << <<2>>, <<0, 1>> >>
      [] len = 4 -> << <<2>>, <<0, 1>>, <<3>> >>
      [] len = 5 -> << <<2>>, <<0, 1>>, <<3, 4>> >>
      [] len = 6 -> << <<2>>, <<0, 1>>, <<4, 5>>, <<3>> >>
      [] len = 7 -> << <<2>>, <<0, 1>>, <<4, 5>>, <<6>>, <<3>> >>
      [] len = 8 -> << <<2>>, <<6, 7>>, <<0, 1>>, <<4, 5>>, <<3>> >>
      [] OTHER -> [i \in 1..len |-> <<i - 1>>]

\* extract_1ch / extract_2ch: the pair, and the frameset with the extracted
\* channels swapped out
extract_channels(frameset, indices) ==
    [pair |-> [k \in 1..Len(indices) |-> frameset[indices[k] + 1]],
     frameset |-> [c \in 1..Len(frameset) |->
                     IF \E k \in 1..Len(indices) : indices[k] + 1 = c
                     THEN <<>> ELSE frameset[c]]]

(***************************************************************************)
(* Decoder: adaptive residual coder                                        *)
(***************************************************************************)
\* [val, pos]
read_residual(bits, pos, k, sample_size) ==
    LET msb == read_huffman_code(bits, pos)
    IN  IF msb.val = -1
        THEN [val |-> read(bits, msb.pos, sample_size),
              pos |-> msb.pos + sample_size]
        ELSE IF k = 0 THEN msb
        ELSE
          LET lsb == read(bits, msb.pos, k - 1)
          IN  IF lsb = 0
              THEN [val |-> msb.val * ((2 ^ k) - 1), pos |-> msb.pos + (k - 1)]
              ELSE [val |-> (msb.val * ((2 ^ k) - 1))
                            + (((2 * lsb) + BitAt(bits, msb.pos + (k - 1))) - 1),
                    pos |-> msb.pos + k]

\* the signed residual of an unsigned one
Unfolded(unsigned_residual) ==
    IF unsigned_residual % 2 = 1 THEN -((unsigned_residual + 1) \div 2)
    ELSE unsigned_residual \div 2

\* whether read_residual_block reads a zero-run length after residual i - 1
zero_run_follows(history, i, block_size) ==
    history < 128 /\ (i + 1) < block_size

\* history after an unsigned residual was read
next_history(history, unsigned_residual) ==
    IF unsigned_residual > 65535 THEN 65535
    ELSE history + ((unsigned_residual * history_multiplier)
                    - ((history * history_multiplier) \div 512))

RECURSIVE read_residual_block_from(_, _, _, _, _, _, _, _)
RECURSIVE residual_read(_, _, _, _, _, _, _, _)
RECURSIVE zero_run_read(_, _, _, _, _, _)

\* the while loop of read_residual_block from index i; [residual, pos]
read_residual_block_from(bits, pos, sample_size, block_size, i, history, sign_modifier, residual) ==
    IF i >= block_size THEN [residual |-> residual, pos |-> pos]
    ELSE residual_read(bits, sample_size, block_size, i + 1, history,
             sign_modifier, residual,
             read_residual(bits, pos,
                 MIN(LOG2((history \div 512) + 3), maximum_k), sample_size))

\* the rest of a pass once read_residual returned code; i is already
\* incremented
residual_read(bits, sample_size, block_size, i, history, sign_modifier, residual, code) ==
    LET unsigned_residual == code.val + sign_modifier
        h1 == next_history(history, unsigned_residual)
    IN  IF zero_run_follows(h1, i, block_size)
        THEN zero_run_read(bits, sample_size, block_size, i,
                 Append(residual, Unfolded(unsigned_residual)),
                 read_residual(bits, code.pos,
                     MIN((7 - LOG2(h1)) + ((h1 + 16) \div 64), maximum_k),
                     16))
        ELSE read_residual_block_from(bits, code.pos, sample_size,
                 block_size, i, h1, 0,
                 Append(residual, Unfolded(unsigned_residual)))

\* the rest of a pass once the zero-run length was read
zero_run_read(bits, sample_size, block_size, i, residual, run) ==
    LET zero_block_size == IF run.val > 0 THEN MIN(run.val, block_size - i)
                           ELSE run.val
    IN  read_residual_block_from(bits, run.pos, sample_size, block_size,
            i + zero_block_size, 0,
            IF zero_block_size <= 65535 THEN 1 ELSE 0,
            residual \o Zeros(zero_block_size))

read_residual_block(bits, pos, sample_size, block_size) ==
    read_residual_block_from(bits, pos, sample_size, block_size, 0,
                             initial_history, 0, <<>>)

(***************************************************************************)
(* Decoder: C int arithmetic.  The decoder computes on int without         *)
(* truncating to the sample size, so its values can leave the 32-bit       *)
(* range.  add32, sub32 and mul32 give the two's complement result and     *)
(* the *_overflows predicates tell when the C operation overflowed, which  *)
(* is undefined behaviour.                                                 *)
(***************************************************************************)
INT_MAX == (2 ^ 30) + ((2 ^ 30) - 1)
INT_MIN == (-INT_MAX) - 1

add_overflows(a, b) ==
    (b > 0 /\ a > INT_MAX - b) \/ (b < 0 /\ a < INT_MIN - b)

add32(a, b) ==
    IF b > 0 /\ a > INT_MAX - b
    THEN ((a - INT_MAX) - 1) + ((b - INT_MAX) - 1)
    ELSE IF b < 0 /\ a < INT_MIN - b
    THEN ((a + INT_MAX) + 1) + ((b + INT_MAX) + 1)
    ELSE a + b

sub_overflows(a, b) ==
    IF b = INT_MIN THEN a >= 0 ELSE add_overflows(a, -b)

sub32(a, b) ==
    IF b = INT_MIN
    THEN (IF a < 0 THEN (a + INT_MAX) + 1 ELSE (a - INT_MAX) - 1)
    ELSE add32(a, -b)

Abs(a) == IF a < 0 THEN -a ELSE a

mul_overflows(a, b) ==
    IF a = 0 \/ b = 0 THEN FALSE
    ELSE IF a = INT_MIN THEN b # 1
    ELSE IF b = INT_MIN THEN a # 1
    ELSE IF (a > 0) = (b > 0) THEN Abs(a) > INT_MAX \div Abs(b)
    ELSE Abs(a) > (INT_MAX \div Abs(b))
         /\ ~(Abs(a) = (INT_MAX \div Abs(b)) + 1
              /\ INT_MAX % Abs(b) = Abs(b) - 1)

\* low 16 bits and high 16 bits of x * y, for x, y in 0..65535
mul16_low(x, y) ==
    ((x * (y % 256)) + (((x * (y \div 256)) % 256) * 256)) % 65536

mul16_high(x, y) ==
    (((x * (y % 256)) + (((x * (y \div 256)) % 256) * 256)) \div 65536)
    + ((x * (y \div 256)) \div 256)

\* the low 32 bits of a * b as a signed value
mul32(a, b) ==
    IF ~mul_overflows(a, b) THEN a * b
    ELSE
      LET al == a % 65536
          ah == (a \div 65536) % 65536
          bl == b % 65536
          bh == (b \div 65536) % 65536
          lo == mul16_low(al, bl)
          hi == (mul16_high(al, bl) + mul16_low(ah, bl) + mul16_low(al, bh))
                % 65536
      IN  IF hi >= 32768 THEN ((hi - 65536) * 65536) + lo
          ELSE (hi * 65536) + lo

(***************************************************************************)
(* Decoder: adaptive predictor                                             *)
(***************************************************************************)
\* qlp_sum after "+= 1 << (shift - 1); >>= shift", converted to int, from
\* term j on: each int product is split in quotient and remainder by
\* 2^shift so that the 64-bit sum is never formed.  [q, r, undefined]
RECURSIVE qlp_terms(_, _, _, _, _, _, _)
qlp_terms(subframe, i, base_sample, coeff, qlp_shift_needed, j, acc) ==
    IF j >= Len(coeff) THEN acc
    ELSE
      LET difference == sub32(subframe[(i - j - 1) + 1], base_sample)
          product == mul32(coeff[j + 1], difference)
      IN  qlp_terms(subframe, i, base_sample, coeff, qlp_shift_needed, j + 1,
              [q |-> add32(acc.q, product \div (2 ^ qlp_shift_needed)),
               r |-> acc.r + (product % (2 ^ qlp_shift_needed)),
               undefined |-> \/ acc.undefined
                             \/ sub_overflows(subframe[(i - j - 1) + 1],
                                              base_sample)
                             \/ mul_overflows(coeff[j + 1], difference)])

\* [val, undefined]
qlp_round(terms, qlp_shift_needed) ==
    [val |-> add32(terms.q, (terms.r + (2 ^ (qlp_shift_needed - 1)))
                            \div (2 ^ qlp_shift_needed)),
     undefined |-> terms.undefined]

qlp_sum_of(subframe, i, base_sample, coeff, qlp_shift_needed) ==
    qlp_round(qlp_terms(subframe, i, base_sample, coeff, qlp_shift_needed,
                        0, [q |-> 0, r |-> 0, undefined |-> FALSE]),
              qlp_shift_needed)

\* st after the subtraction "residual -= step" of one pass of the
\* adaptation loop
adapt_residual(st, positive, sign, coeff_index, step, undefined) ==
    [coeff |-> [st.coeff EXCEPT ![coeff_index] =
                   IF positive THEN @ - sign ELSE @ + sign],
     residual |-> sub32(st.residual, step),
     undefined |-> st.undefined \/ undefined
                   \/ sub_overflows(st.residual, step),
     done |-> IF positive THEN sub32(st.residual, step) <= 0
              ELSE sub32(st.residual, step) >= 0]

\* st after "((diff * sign) >> shift) * (j + 1)" was formed
adapt_magnitude(st, positive, sign, coeff_index, magnitude, factor, undefined) ==
    adapt_residual(st, positive, sign, coeff_index, mul32(magnitude, factor),
                   undefined \/ mul_overflows(magnitude, factor))

\* st after diff was formed
adapt_diff(st, positive, qlp_shift_needed, j, diff, undefined) ==
    adapt_magnitude(st, positive, SIGN_ONLY(diff), Len(st.coeff) - j,
        mul32(diff, IF positive THEN SIGN_ONLY(diff) ELSE -SIGN_ONLY(diff))
            \div (2 ^ qlp_shift_needed),
        j + 1,
        undefined
        \/ mul_overflows(diff, IF positive THEN SIGN_ONLY(diff)
                               ELSE -SIGN_ONLY(diff)))

\* one pass of a coefficient adaptation loop of decode_subframe;
\* st = [coeff, residual, undefined, done], done once the loop breaks
adapt_step(subframe, i, qlp_shift_needed, positive, j, st) ==
    adapt_diff(st, positive, qlp_shift_needed, j,
        sub32(subframe[(i - Len(st.coeff) - 1) + 1],
              subframe[(i - Len(st.coeff) + j) + 1]),
        sub_overflows(subframe[(i - Len(st.coeff) - 1) + 1],
                      subframe[(i - Len(st.coeff) + j) + 1]))

RECURSIVE adapt_coeff(_, _, _, _, _, _)
adapt_coeff(subframe, i, qlp_shift_needed, positive, j, st) ==
    IF j >= Len(st.coeff) \/ st.done THEN st
    ELSE adapt_coeff(subframe, i, qlp_shift_needed, positive, j + 1,
             adapt_step(subframe, i, qlp_shift_needed, positive, j, st))

\* the sample decode_subframe stores at index i
decoded_sample(qlp_sum, residual, base_sample) ==
    add32(add32(qlp_sum, residual), base_sample)

\* st = [coeff, subframe, undefined] after subframe[i] was stored and the
\* coefficients adapted
sample_decoded(st, residual, base_sample, qlp_sum, adapted) ==
    [coeff |-> adapted.coeff,
     subframe |-> Append(st.subframe,
                         decoded_sample(qlp_sum.val, residual, base_sample)),
     undefined |-> \/ st.undefined
                   \/ qlp_sum.undefined
                   \/ adapted.undefined
                   \/ add_overflows(qlp_sum.val, residual)
                   \/ add_overflows(add32(qlp_sum.val, residual),
                                    base_sample)]

\* the predicted part of decode_subframe, from index i
RECURSIVE decode_subframe_from(_, _, _, _, _)
decode_subframe_from(block_size, qlp_shift_needed, residuals, i, st) ==
    IF i >= block_size THEN st
    ELSE decode_subframe_from(block_size, qlp_shift_needed, residuals, i + 1,
             sample_decoded(st, residuals[i + 1],
                 st.subframe[(i - Len(st.coeff) - 1) + 1],
                 qlp_sum_of(st.subframe, i,
                     st.subframe[(i - Len(st.coeff) - 1) + 1], st.coeff,
                     qlp_shift_needed),
                 adapt_coeff(st.subframe, i, qlp_shift_needed,
                     residuals[i + 1] > 0, 0,
                     [coeff |-> st.coeff, residual |-> residuals[i + 1],
                      undefined |-> FALSE, done |-> residuals[i + 1] = 0])))

\* the indices of residuals[] and subframe[] decode_subframe touches ahead
\* of its prediction loop: 0, then 1..coeff_count
warm_up_indices(coeff_count) == 0..coeff_count

\* the warm-up loop: subframe[0] = residuals[0], then running sums up to
\* index coeff_count
RECURSIVE warm_up(_, _, _)
warm_up(residuals, i, subframe) ==
    IF i > Len(residuals) THEN subframe
    ELSE warm_up(residuals, i + 1,
                 Append(subframe,
                        IF i = 1 THEN residuals[1]
                        ELSE residuals[i] + subframe[i - 1]))

predicted_subframe(st) ==
    [subframe |-> st.subframe, undefined |-> st.undefined]

\* [subframe, undefined]: undefined when the warm-up loop leaves the arrays
\* (coeff_count >= block_size), the shift is 0, or an int operation
\* overflowed
decode_subframe(block_size, subframe_header, residuals) ==
    IF subframe_header.coeff_count + 1 <= block_size
       /\ subframe_header.shift_needed >= 1
    THEN predicted_subframe(
             decode_subframe_from(block_size, subframe_header.shift_needed,
                 residuals, subframe_header.coeff_count + 1,
                 [coeff |-> subframe_header.coeff,
                  subframe |-> warm_up(SubSeq(residuals, 1,
                                   subframe_header.coeff_count + 1), 1, <<>>),
                  undefined |-> FALSE]))
    ELSE [subframe |-> warm_up(residuals, 1, <<>>), undefined |-> TRUE]

\* a faulty weighting, to be told apart from weighted: the quotient is
\* rounded toward zero
weighted_toward_zero(value, interlacing_shift, interlacing_leftweight) ==
    IF value >= 0
    THEN (value * interlacing_leftweight) \div (2 ^ interlacing_shift)
    ELSE -(((-value) * interlacing_leftweight) \div (2 ^ interlacing_shift))

\* (int)((int64)subframe_1[i] * leftweight >> shift), for the shifts and
\* weights an 8-bit header field can hold
weighted(value, interlacing_shift, interlacing_leftweight) ==
    LET high == ((value \div 65536) * interlacing_leftweight)
                + (((value % 65536) * interlacing_leftweight) \div 65536)
        low == ((value % 65536) * interlacing_leftweight) % 65536
    IN  IF interlacing_shift >= 47 THEN (IF high < 0 THEN -1 ELSE 0)
        ELSE IF interlacing_shift > 16
        THEN high \div (2 ^ (interlacing_shift - 16))
        ELSE add32(mul32(high, 2 ^ (16 - interlacing_shift)),
                   low \div (2 ^ interlacing_shift))

\* [left, right, undefined]
decorrelate_channels(block_size, interlacing_shift, interlacing_leftweight, subframe_0, subframe_1) ==
    LET leftweight(i) == weighted(subframe_1[i], interlacing_shift,
                                  interlacing_leftweight)
        right(i) == sub32(subframe_0[i], leftweight(i))
    IN  [left |-> [i \in 1..block_size |-> add32(subframe_1[i], right(i))],
         right |-> [i \in 1..block_size |-> right(i)],
         undefined |-> \/ interlacing_shift >= 64
                       \/ \E i \in 1..block_size :
                            \/ sub_overflows(subframe_0[i], leftweight(i))
                            \/ add_overflows(subframe_1[i], right(i))]

(***************************************************************************)
(* Decoder: frames                                                         *)
(* A decoder result is [status, pos, ...]; a read past the end of the      *)
(* stream (br_abort) shows as pos > Len(bits) and is turned into an I/O    *)
(* error by the caller's br_try.                                           *)
(***************************************************************************)
RECURSIVE read_coefficients(_, _, _)
read_coefficients(bits, pos, count) ==
    IF count = 0 THEN <<>>
    ELSE <<read_signed(bits, pos, 16)>>
         \o read_coefficients(bits, pos + 16, count - 1)

\* a faulty header reader, to be told apart from read_subframe_header: the
\* prediction type is read and not looked at
read_subframe_header_any_type(bits, pos) ==
    [status |-> "OK", pos |-> pos + 16 + (16 * read(bits, pos + 11, 5)),
     prediction_type |-> read(bits, pos, 4),
     shift_needed |-> read(bits, pos + 4, 4),
     rice_modifier |-> read(bits, pos + 8, 3),
     coeff_count |-> read(bits, pos + 11, 5),
     coeff |-> read_coefficients(bits, pos + 16, read(bits, pos + 11, 5))]

read_subframe_header(bits, pos) ==
    LET prediction_type == read(bits, pos, 4)
        coeff_count == read(bits, pos + 11, 5)
    IN  IF prediction_type # 0
        THEN [status |-> "INVALID_PREDICTION_TYPE", pos |-> pos + 4,
              prediction_type |-> prediction_type, shift_needed |-> 0,
              rice_modifier |-> 0, coeff_count |-> 0, coeff |-> <<>>]
        ELSE [status |-> "OK", pos |-> pos + 16 + (16 * coeff_count),
              prediction_type |-> prediction_type,
              shift_needed |-> read(bits, pos + 4, 4),
              rice_modifier |-> read(bits, pos + 8, 3),
              coeff_count |-> coeff_count,
              coeff |-> read_coefficients(bits, pos + 16, coeff_count)]

\* channel_0[i] / channel_1[i] of decode_uncompressed_frame
decode_uncompressed_frame(bits, pos, bits_per_sample, block_size, channels) ==
    [status |-> "OK",
     pos |-> pos + (block_size * channels * bits_per_sample),
     undefined |-> FALSE,
     channel |-> [c \in 1..channels |-> [i \in 1..block_size |->
         read_signed(bits,
                     pos + ((((i - 1) * channels) + (c - 1)) * bits_per_sample),
                     bits_per_sample)]]]

\* channel[i] <<= uncompressed_bits; channel[i] |= LSBs[c][i]
apply_LSBs(bits, pos, uncompressed_bits, channels, c, channel) ==
    [i \in 1..Len(channel) |->
        mul32(channel[i], 2 ^ uncompressed_bits)
        + read(bits, pos + ((((i - 1) * channels) + (c - 1)) * uncompressed_bits),
               uncompressed_bits)]

\* the loop over read_subframe_header: st = [status, pos, headers]
header_read(st, header) ==
    [status |-> header.status, pos |-> header.pos,
     headers |-> Append(st.headers, header)]

RECURSIVE read_subframe_headers(_, _, _, _)
read_subframe_headers(bits, channels, c_, st) ==
    IF c_ >= channels \/ st.status # "OK" THEN st
    ELSE read_subframe_headers(bits, channels, c_ + 1,
             header_read(st, read_subframe_header(bits, st.pos)))

\* the loop over read_residual_block and decode_subframe:
\* st = [pos, subframe, undefined]
subframe_decoded(st, pos, decoded) ==
    [pos |-> pos, subframe |-> Append(st.subframe, decoded.subframe),
     undefined |-> st.undefined \/ decoded.undefined]

residual_block_read(block_size, subframe_header, st, block) ==
    subframe_decoded(st, block.pos,
        decode_subframe(block_size, subframe_header, block.residual))

RECURSIVE decode_subframes(_, _, _, _, _, _)
decode_subframes(bits, sample_size, block_size, headers, c_, st) ==
    IF c_ >= Len(headers) THEN st
    ELSE decode_subframes(bits, sample_size, block_size, headers, c_ + 1,
             residual_block_read(block_size, headers[c_ + 1], st,
                 read_residual_block(bits, st.pos, sample_size, block_size)))

\* the channels after decorrelation (or memcpy) and the LSBs
channels_decoded(bits, LSBs_pos, uncompressed_LSBs, channels, decoded, decorrelation) ==
    [status |-> "OK", pos |-> decoded.pos,
     undefined |-> decoded.undefined \/ decorrelation.undefined,
     channel |-> [c_ \in 1..channels |->
         IF uncompressed_LSBs > 0
         THEN apply_LSBs(bits, LSBs_pos, uncompressed_LSBs * 8, channels, c_,
                         IF c_ = 1 THEN decorrelation.left
                         ELSE decorrelation.right)
         ELSE IF c_ = 1 THEN decorrelation.left ELSE decorrelation.right]]

subframes_decoded(bits, LSBs_pos, uncompressed_LSBs, block_size, channels, interlacing_shift, interlacing_leftweight, decoded) ==
    channels_decoded(bits, LSBs_pos, uncompressed_LSBs, channels, decoded,
        IF channels = 2 /\ interlacing_leftweight > 0
        THEN decorrelate_channels(block_size, interlacing_shift,
                 interlacing_leftweight, decoded.subframe[1],
                 decoded.subframe[2])
        ELSE [left |-> decoded.subframe[1],
              right |-> decoded.subframe[channels], undefined |-> FALSE])

headers_decoded(bits, uncompressed_LSBs, sample_size, block_size, channels, interlacing_shift, interlacing_leftweight, st) ==
    IF st.status # "OK"
    THEN [status |-> st.status, pos |-> st.pos, undefined |-> FALSE,
          channel |-> <<>>]
    ELSE subframes_decoded(bits, st.pos, uncompressed_LSBs, block_size,
             channels, interlacing_shift, interlacing_leftweight,
             decode_subframes(bits, sample_size, block_size, st.headers, 0,
                 [pos |-> st.pos + (block_size * channels
                                    * (uncompressed_LSBs * 8)),
                  subframe |-> <<>>, undefined |-> FALSE]))

\* [status, pos, undefined, channel]
decode_compressed_frame(bits, pos, uncompressed_LSBs, bits_per_sample, block_size, channels) ==
    headers_decoded(bits, uncompressed_LSBs,
        (bits_per_sample - (uncompressed_LSBs * 8)) + (channels - 1),
        block_size, channels, read(bits, pos, 8), read(bits, pos + 8, 8),
        read_subframe_headers(bits, channels, 0,
            [status |-> "OK", pos |-> pos + 16, headers |-> <<>>]))

frame_decoded(block_size, frame) ==
    [status |-> frame.status, pos |-> frame.pos, block_size |-> block_size,
     undefined |-> frame.undefined, channel |-> frame.channel]

\* [status, pos, block_size, undefined, channel]
decode_frame(bits, pos, params_block_size, bits_per_sample, channels) ==
    LET has_sample_count == read(bits, pos + 16, 1)
        uncompressed_LSBs == read(bits, pos + 17, 2)
        not_uncompressed == read(bits, pos + 19, 1)
        \* a 32-bit count with a bit set among its top 8 exceeds any
        \* params->block_size below 2^24
        too_large == has_sample_count = 1
                     /\ (read(bits, pos + 20, 8) # 0
                         \/ read(bits, pos + 28, 24) > params_block_size)
        block_size == IF has_sample_count = 0 THEN params_block_size
                      ELSE read(bits, pos + 28, 24)
        body_pos == IF has_sample_count = 0 THEN pos + 20 ELSE pos + 52
    IN  IF too_large
        THEN [status |-> "INVALID_BLOCK_SIZE", pos |-> body_pos,
              block_size |-> params_block_size + 1, undefined |-> FALSE,
              channel |-> <<>>]
        ELSE frame_decoded(block_size,
                 IF not_uncompressed = 0
                 THEN decode_compressed_frame(bits, body_pos,
                          uncompressed_LSBs, bits_per_sample, block_size,
                          channels)
                 ELSE decode_uncompressed_frame(bits, body_pos,
                          bits_per_sample, block_size, channels))

(***************************************************************************)
(* Inputs: the PCM blocks handed to the encoder and the quantized LPC      *)
(* coefficients.  The floating-point stage of compute_coefficients         *)
(* (window_signal, autocorrelate, compute_lp_coefficients,                 *)
(* quantize_coefficients) is abstracted: its result for order 4 and order  *)
(* 8 is one of LpcChoices.  Only its exact test autocorrelated[0] != 0.0   *)
(* is computed from the samples.                                           *)
(***************************************************************************)
SampleMin(bits_per_sample) == -(2 ^ (bits_per_sample - 1))
SampleMax(bits_per_sample) == (2 ^ (bits_per_sample - 1)) - 1

\* 24-bit waves carry non-zero low bytes
WaveScale(bits_per_sample) == IF bits_per_sample = 16 THEN 1 ELSE 257

WaveNames ==
    <<"zero", "impulse", "min0", "ramp", "alt", "quiet", "steep", "over",
      "under">>

\* sample i (0-based) of a named wave of n samples
WaveSample(name, bits_per_sample, n, i) ==
    CASE name = "zero" -> 0
      [] name = "impulse" -> IF i = 0 THEN 5 ELSE 0
      [] name = "min0" -> IF i = 0 THEN SampleMin(bits_per_sample) ELSE 0
      [] name = "ramp" -> ((i * 3) - 7) * WaveScale(bits_per_sample)
      [] name = "alt" -> IF i % 2 = 0 THEN SampleMax(bits_per_sample)
                         ELSE SampleMin(bits_per_sample)
      [] name = "quiet" -> IF i = n - 2 THEN WaveScale(bits_per_sample)
                           ELSE 0
      [] name = "steep" -> (i * i * 40) * WaveScale(bits_per_sample)
      [] name = "over" -> IF i = 0 THEN (2 ^ (bits_per_sample - 1))
                                        + (2 ^ (bits_per_sample - 3))
                          ELSE 0
      [] name = "under" -> IF i = 0 THEN -((2 ^ (bits_per_sample - 1))
                                           + (2 ^ (bits_per_sample - 3)))
                           ELSE 0

Wave(name, bits_per_sample, n) ==
    [i \in 1..n |-> WaveSample(name, bits_per_sample, n, i - 1)]

LpcChoices ==
    { [q4 |-> <<0, 0, 0, 0>>, q8 |-> <<0, 0, 0, 0, 0, 0, 0, 0>>],
      [q4 |-> <<1024, -512, 0, 0>>, q8 |-> <<1024, -512, 0, 0, 0, 0, 0, 0>>],
      [q4 |-> <<2047, 0, 0, 0>>, q8 |-> <<1024, -512, 0, 0, 0, 0, 0, 0>>] }

StereoWaves ==
    { <<w, w>> : w \in {"zero", "impulse", "ramp", "quiet", "alt"} }
    \cup { <<"over", "under">>, <<"ramp", "zero">>, <<"alt", "ramp">>,
           <<"min0", "impulse">>, <<"steep", "quiet">> }

\* the waves blocks of three or more channels are built of
SurroundWaves ==
    <<"zero", "impulse", "ramp", "steep", "over", "under">>

\* the wave names of the channels of a block
ChannelWaves(channel_count) ==
    IF channel_count = 1
    THEN { <<WaveNames[k]>> : k \in 1..Len(WaveNames) }
    ELSE IF channel_count = 2 THEN StereoWaves
    ELSE { [ch \in 1..channel_count |->
               SurroundWaves[((ch + seed) % Len(SurroundWaves)) + 1]] :
           seed \in {0, 3} }

BlockLengths ==
    {ShortFrames, MIN_COMPRESSED_FRAMES - 1, MIN_COMPRESSED_FRAMES, BlockSize}

InRange(bits_per_sample, channels) ==
    \A c \in 1..Len(channels) : \A i \in 1..Len(channels[c]) :
        /\ channels[c][i] >= SampleMin(bits_per_sample)
        /\ channels[c][i] <= SampleMax(bits_per_sample)

(***************************************************************************)
(* State                                                                   *)
(***************************************************************************)
VARIABLES
    encoder,     \* struct alac_context: options and bits_per_sample
    pcm,         \* the block read from the PCM source, one sequence a channel
    frameset,    \* the aa_int handed to write_frameset
    frame_no,    \* write_frame calls completed in write_frameset
    bs,          \* bits written to the output for this frameset
    rec,         \* contents of interlaced_frame and best_interlaced_frame
    frames,      \* history of the write_frame calls
    pc,          \* "write_frameset", "decode_frameset" or "done"
    br_pos,      \* decoder's bit position
    c,           \* channels decoded so far in decode_frameset
    block_size,  \* decode_frameset's block_size
    samples,     \* channels stored by put_channel_data, in storing order
    status,      \* result of the read call, "" while it runs
    framelist,   \* what ALACDecoder_read returns to its caller
    pcmreader,   \* the PCM source of encode_alac: its blocks, the number
                 \* read, its status and the status its last read leaves
    frame_byte_size,  \* bytes counted by the byte_counter callback
    frame_sizes, \* linked list of alac_frame_size, head first
    result,      \* what the call under study returned
    args,        \* arguments of the function under study
    residual_block    \* bits a function under study wrote

\* the state of one encode_alac call beyond the frameset being written
file_vars == <<pcmreader, frame_byte_size, frame_sizes>>

\* the state of a function studied alone
unit_vars == <<result, args, residual_block>>

vars == <<encoder, pcm, frameset, frame_no, bs, rec, frames, pc, br_pos, c,
          block_size, samples, status, framelist, file_vars, unit_vars>>

\* no frame list was built yet
no_framelist == [exception |-> "", frames |-> 0, samples |-> <<>>]

\* no encode_alac call is under way
file_unused ==
    /\ pcmreader = [blocks |-> <<>>, read |-> 0, status |-> "PCM_OK",
                    ends |-> "PCM_OK"]
    /\ frame_byte_size = 0
    /\ frame_sizes = <<>>

\* no function is studied alone
unit_unused ==
    /\ result = <<>>
    /\ args = <<>>
    /\ residual_block = <<>>

Init ==
    \E channel_count \in 1..MaxChannels, bits_per_sample \in {16, 24},
       n \in BlockLengths, lp \in LpcChoices :
      \E waves \in ChannelWaves(channel_count) :
        /\ encoder = [block_size |-> BlockSize,
                      bits_per_sample |-> bits_per_sample, lp |-> lp]
        /\ pcm = [ch \in 1..channel_count |->
                     Wave(waves[ch], bits_per_sample, n)]
        /\ frameset = pcm
        /\ frame_no = 0
        /\ bs = <<>>
        /\ rec = [interlaced_frame |-> <<>>, best_interlaced_frame |-> <<>>]
        /\ frames = <<>>
        /\ pc = "write_frameset"
        /\ br_pos = 0
        /\ c = 0
        /\ block_size = BlockSize
        /\ samples = <<>>
        /\ status = ""
        /\ framelist = no_framelist
        /\ file_unused
        /\ unit_unused

(***************************************************************************)
(* Encoder actions                                                         *)
(***************************************************************************)
\* the effect of one write_frame call on the state
FrameWritten(indices, remaining, channels, frame) ==
    /\ bs' = bs \o frame.bits
    /\ rec' = frame.rec
    /\ frameset' = remaining
    /\ frames' = Append(frames,
           [indices |-> indices, channels |-> channels,
            start |-> Len(bs), stop |-> Len(bs) + Len(frame.bits),
            attempt |-> frame.attempt, overflow |-> frame.overflow,
            tried |-> frame.tried])

\* the channels write_frameset hands to its next write_frame call
next_pair(channels, frame_no_) ==
    IF Len(channels) <= 2 THEN channels
    ELSE extract_channels(channels,
             frameset_layout(Len(channels))[frame_no_ + 1]).pair

\* the frameset after that extraction
next_frameset(channels, frame_no_) ==
    IF Len(channels) <= 2 THEN channels
    ELSE extract_channels(channels,
             frameset_layout(Len(channels))[frame_no_ + 1]).frameset

\* one write_frame call of write_frameset
WriteFrame ==
    /\ pc = "write_frameset"
    /\ frame_no < Len(frameset_layout(Len(pcm)))
    /\ FrameWritten(frameset_layout(Len(pcm))[frame_no + 1],
                    next_frameset(frameset, frame_no),
                    next_pair(frameset, frame_no),
                    write_frame(encoder, rec, next_pair(frameset, frame_no)))
    /\ frame_no' = frame_no + 1
    /\ UNCHANGED <<encoder, pcm, pc, br_pos, c, block_size, samples, status,
                   framelist, file_vars, unit_vars>>

\* the trailing '111' bits and the byte alignment of write_frameset
WriteTrailer ==
    /\ pc = "write_frameset"
    /\ frame_no = Len(frameset_layout(Len(pcm)))
    /\ bs' = byte_align(bs \o write(3, 7))
    /\ pc' = "decode_frameset"
    /\ UNCHANGED <<encoder, pcm, frameset, frame_no, rec, frames, br_pos, c,
                   block_size, samples, status, framelist, file_vars,
                   unit_vars>>

(***************************************************************************)
(* Decoder actions: one read call (decode_frameset) over the frameset      *)
(* written above, with the stream parameters the encoder was given.        *)
(***************************************************************************)
\* the outcomes of a frame whose decoding left the arrays: the process may
\* die, or go on with whatever the stray accesses produced
Outcomes(undefined) == IF undefined THEN {"crash", "continue"} ELSE {"continue"}

\* reader position after br->byte_align
reader_byte_align(pos) == ((pos + 7) \div 8) * 8

\* a faulty check, to be told apart from failure_of: the channels already
\* decoded are not counted
failure_of_any_count(channels, frame) ==
    IF br_pos + 3 > Len(bs) THEN "IOError"
    ELSE IF channels # 1 /\ channels # 2 THEN "INVALID_FRAME_CHANNEL_COUNT"
    ELSE IF frame.pos > Len(bs) THEN "IOError"
    ELSE IF frame.status # "OK" THEN frame.status
    ELSE IF c # 0 /\ block_size # frame.block_size
    THEN "FRAME_BLOCK_SIZE_MISMATCH"
    ELSE ""

\* a faulty check, to be told apart from failure_of: the block sizes of the
\* frames are not compared
failure_of_any_size(channels, frame) ==
    IF br_pos + 3 > Len(bs) THEN "IOError"
    ELSE IF channels # 1 /\ channels # 2 THEN "INVALID_FRAME_CHANNEL_COUNT"
    ELSE IF c + channels > Len(pcm) THEN "EXCESSIVE_FRAME_CHANNEL_COUNT"
    ELSE IF frame.pos > Len(bs) THEN "IOError"
    ELSE IF frame.status # "OK" THEN frame.status
    ELSE ""

\* the status decode_frameset returns from this iteration, "" to go on
failure_of(channels, frame) ==
    IF br_pos + 3 > Len(bs) THEN "IOError"
    ELSE IF channels # 1 /\ channels # 2 THEN "INVALID_FRAME_CHANNEL_COUNT"
    ELSE IF c + channels > Len(pcm) THEN "EXCESSIVE_FRAME_CHANNEL_COUNT"
    ELSE IF frame.pos > Len(bs) THEN "IOError"
    ELSE IF frame.status # "OK" THEN frame.status
    ELSE IF c # 0 /\ block_size # frame.block_size
    THEN "FRAME_BLOCK_SIZE_MISMATCH"
    ELSE ""

\* the effect of one iteration on the state
FrameRead(channels, frame) ==
    IF failure_of(channels, frame) # ""
    THEN /\ status' = failure_of(channels, frame)
         /\ pc' = "done"
         /\ UNCHANGED <<br_pos, c, block_size, samples>>
    ELSE \E outcome \in Outcomes(frame.undefined) :
         IF outcome = "crash"
         THEN /\ status' = "crash"
              /\ pc' = "done"
              /\ UNCHANGED <<br_pos, c, block_size, samples>>
         ELSE /\ br_pos' = frame.pos
              /\ c' = c + channels
              /\ block_size' = IF c = 0 THEN frame.block_size ELSE block_size
              /\ samples' = samples \o frame.channel
              /\ UNCHANGED <<status, pc>>

\* one iteration of the while loop of decode_frameset
DecodeFrame ==
    /\ pc = "decode_frameset"
    /\ read(bs, br_pos, 3) + 1 # 8 \/ br_pos + 3 > Len(bs)
    /\ FrameRead(read(bs, br_pos, 3) + 1,
                 decode_frame(bs, br_pos + 3, encoder.block_size,
                              encoder.bits_per_sample,
                              MIN(read(bs, br_pos, 3) + 1, 2)))
    /\ UNCHANGED <<encoder, pcm, frameset, frame_no, bs, rec, frames,
                   framelist, file_vars, unit_vars>>

\* the terminating value 7: byte-align and return OK
DecodeEnd ==
    /\ pc = "decode_frameset"
    /\ br_pos + 3 <= Len(bs)
    /\ read(bs, br_pos, 3) + 1 = 8
    /\ br_pos' = reader_byte_align(br_pos + 3)
    /\ status' = "OK"
    /\ pc' = "done"
    /\ UNCHANGED <<encoder, pcm, frameset, frame_no, bs, rec, frames, c,
                   block_size, samples, framelist, file_vars, unit_vars>>

\* ALACDecoder_read after decode_frameset: an exception and no frame list
\* unless the status is OK (I/O errors and a dead process included), else
\* the frame list cut to pcm_frames_read frames
ReturnFrameList ==
    /\ pc = "done"
    /\ framelist' = IF status = "OK"
                    THEN [exception |-> "", frames |-> block_size,
                          samples |-> samples]
                    ELSE [exception |-> status, frames |-> 0,
                          samples |-> <<>>]
    /\ pc' = "returned"
    /\ UNCHANGED <<encoder, pcm, frameset, frame_no, bs, rec, frames, br_pos,
                   c, block_size, samples, status, file_vars, unit_vars>>

Next ==
    WriteFrame \/ WriteTrailer \/ DecodeFrame \/ DecodeEnd \/ ReturnFrameList

Spec == Init /\ [][Next]_vars

(***************************************************************************)
(* The predictor alone: calculate_residuals and compute_coefficients       *)
(* applied to one channel of samples.                                      *)
(***************************************************************************)
\* the encoder and decoder state of a specification that runs neither
codec_unused ==
    /\ pcm = <<>>
    /\ frameset = <<>>
    /\ frame_no = 0
    /\ bs = <<>>
    /\ rec = [interlaced_frame |-> <<>>, best_interlaced_frame |-> <<>>]
    /\ frames = <<>>
    /\ br_pos = 0
    /\ c = 0
    /\ block_size = BlockSize
    /\ samples = <<>>
    /\ status = ""
    /\ framelist = no_framelist

\* channels that are zero wherever the Tukey window is not: first and last
\* sample free, the last one only in a block of block_size samples
EdgeSamples == {0, 5, -7, 32767, -32768}

EdgeBlocks(n) ==
    { [i \in 1..n |-> IF i = 1 THEN first
                      ELSE IF i = n /\ n = BlockSize THEN last ELSE 0] :
      first \in EdgeSamples, last \in EdgeSamples }

\* the channels handed to the predictor: 16-bit waves and edge blocks
PredictorBlocks(n) ==
    { Wave(WaveNames[k], 16, n) : k \in 1..Len(WaveNames) }
    \cup EdgeBlocks(n)

\* residual blocks and subframe headers handed to decode_subframe directly:
\* residuals read_residual_block can return for the sample size (folded
\* value below 2^sample_size), 16-bit coefficients, shift 9, and one
\* sample to predict after the warm-up
SubframeInputs ==
    { [sample_size |-> 17, coeff |-> <<first, 0, 0, 0>>,
       residuals |-> [i \in 1..6 |->
                         IF i = 1 THEN -65536
                         ELSE IF i \in {2, 3} THEN step ELSE 0]] :
      first \in {32767, -32768, 16384, 1}, step \in {65535, 16000, 1} }

PredictorInit ==
    \E n \in {MIN_COMPRESSED_FRAMES, BlockSize}, lp \in LpcChoices,
       sample_size \in {16, 17} :
      \E channel \in PredictorBlocks(n) :
        /\ encoder = [block_size |-> BlockSize, bits_per_sample |-> 16,
                      lp |-> lp]
        /\ \/ \E order \in {4, 8} :
                 args = [call |-> "calculate_residuals",
                         sample_size |-> sample_size, samples |-> channel,
                         order |-> order,
                         qlp_coefficients |->
                             IF order = 4 THEN lp.q4 ELSE lp.q8]
           \/ args = [call |-> "compute_coefficients",
                      sample_size |-> sample_size, samples |-> channel,
                      order |-> 0, qlp_coefficients |-> <<>>]
           \/ \E subframe \in SubframeInputs :
                 args = [call |-> "decode_subframe",
                         sample_size |-> subframe.sample_size,
                         samples |-> subframe.residuals,
                         order |-> Len(subframe.coeff),
                         qlp_coefficients |-> subframe.coeff]
        /\ result = <<>>
        /\ residual_block = <<>>
        /\ pc = "call"
        /\ codec_unused
        /\ file_unused

\* calculate_residuals(sample_size, sample_count, samples, order,
\* qlp_coefficients, residuals): result is residuals
CalculateResiduals ==
    /\ pc = "call"
    /\ args.call = "calculate_residuals"
    /\ result' = calculate_residuals(args.sample_size, args.samples,
                                     args.order, args.qlp_coefficients)
    /\ pc' = "called"
    /\ UNCHANGED <<encoder, pcm, frameset, frame_no, bs, rec, frames, br_pos,
                   c, block_size, samples, status, framelist, file_vars, args,
                   residual_block>>

\* compute_coefficients(encoder, sample_count, samples, sample_size, order,
\* qlp_coefficients, residual): result is [order, qlp_coefficients, ...],
\* residual_block the bits written to residual
ComputeCoefficients ==
    /\ pc = "call"
    /\ args.call = "compute_coefficients"
    /\ result' = compute_coefficients(encoder, args.samples, args.sample_size)
    /\ residual_block' = result'.residual
    /\ pc' = "called"
    /\ UNCHANGED <<encoder, pcm, frameset, frame_no, bs, rec, frames, br_pos,
                   c, block_size, samples, status, framelist, file_vars, args>>

\* decode_subframe(block_size, subframe_header, residuals, subframe) on the
\* residuals calculate_residuals returned, with the header the encoder
\* writes for them (the initial coefficients, shift 9), or on residuals
\* and a header given directly.  rec keeps what decode_subframe computed,
\* samples the subframe of a process that went on.
DecodeSubframe ==
    /\ \/ pc = "called" /\ args.call = "calculate_residuals"
       \/ pc = "call" /\ args.call = "decode_subframe"
    /\ rec' = decode_subframe(Len(args.samples),
                  [coeff_count |-> args.order, shift_needed |-> 9,
                   coeff |-> args.qlp_coefficients],
                  IF args.call = "calculate_residuals" THEN result
                  ELSE args.samples)
    /\ \E outcome \in Outcomes(rec'.undefined) :
         IF outcome = "crash"
         THEN status' = "crash" /\ samples' = <<>>
         ELSE status' = "OK" /\ samples' = <<rec'.subframe>>
    /\ pc' = "decoded"
    /\ UNCHANGED <<encoder, pcm, frameset, frame_no, bs, frames, br_pos, c,
                   block_size, framelist, file_vars, unit_vars>>

PredictorNext == CalculateResiduals \/ ComputeCoefficients \/ DecodeSubframe

PredictorSpec == PredictorInit /\ [][PredictorNext]_vars

(***************************************************************************)
(* One encode_alac call over a PCM source, and the conversion of its       *)
(* result by encoders_encode_alac.  bs is everything written to output;    *)
(* a C list is the sequence of its nodes, NULL the empty sequence.         *)
(***************************************************************************)
\* write_frameset as a function: [bits, rec] after the frames from frame_no
\* on, the trailing '111' and the byte alignment
RECURSIVE write_frameset_from(_, _, _, _, _)
RECURSIVE frame_written(_, _, _, _, _)
write_frameset_from(encoder_, channels, rec_, frame_no_, acc) ==
    IF frame_no_ >= Len(frameset_layout(Len(channels)))
    THEN [bits |-> byte_align(acc \o write(3, 7)), rec |-> rec_]
    ELSE frame_written(encoder_, channels, frame_no_, acc,
             write_frame(encoder_, rec_, next_pair(channels, frame_no_)))

frame_written(encoder_, channels, frame_no_, acc, frame) ==
    write_frameset_from(encoder_, next_frameset(channels, frame_no_),
                        frame.rec, frame_no_ + 1, acc \o frame.bits)

write_frameset(encoder_, rec_, channels) ==
    write_frameset_from(encoder_, channels, rec_, 0, <<>>)

\* what the byte_counter callback adds for these bits
byte_counter(bits) == Len(bits) \div 8

push_frame_size(head, byte_size, pcm_frames_size) ==
    <<[byte_size |-> byte_size, pcm_frames_size |-> pcm_frames_size]>>
    \o head

\* a faulty reversal, to be told apart from reverse_frame_sizes: the list
\* is left as push_frame_size built it
frame_sizes_as_pushed(head) == head

reverse_frame_sizes(head) ==
    [k \in 1..Len(head) |-> head[(Len(head) + 1) - k]]

\* total_mdat_size: 8 plus the byte_size of every node
RECURSIVE total_mdat_size(_)
total_mdat_size(head) ==
    IF head = <<>> THEN 8
    ELSE Head(head).byte_size + total_mdat_size(Tail(head))

\* total_pcm_frames of encoders_encode_alac
RECURSIVE total_pcm_frames(_)
total_pcm_frames(sizes) ==
    IF sizes = <<>> THEN 0
    ELSE Head(sizes).pcm_frames_size + total_pcm_frames(Tail(sizes))

\* the bytes "mdat"
mdat_bytes == write(8, 109) \o write(8, 100) \o write(8, 97) \o write(8, 116)

\* number of blocks the PCM source holds, at most
MaxBlocks == 3

\* the blocks a PCM source of channel_count channels can deliver
SourceBlocks(channel_count) ==
    { [ch \in 1..channel_count |-> Wave(shape[1], 16, shape[2])] :
      shape \in {<<"ramp", BlockSize>>, <<"zero", BlockSize>>,
                 <<"impulse", ShortFrames>>} }

\* nothing was returned yet
no_result ==
    [null |-> TRUE, frame_sizes |-> <<>>, frame_byte_sizes |-> <<>>,
     total_pcm_frames |-> 0, freed |-> {}, flushed |-> FALSE]

EncodeInit ==
    \E channel_count \in 1..3, lp \in LpcChoices, m \in 0..MaxBlocks,
       read_status \in {"PCM_OK", "PCM_READ_ERROR"} :
      \E blocks \in [1..m -> SourceBlocks(channel_count)] :
        /\ encoder = [block_size |-> BlockSize, bits_per_sample |-> 16,
                      lp |-> lp]
        /\ pcmreader = [blocks |-> blocks, read |-> 0, status |-> "PCM_OK",
                        ends |-> read_status]
        /\ frame_byte_size = 0
        /\ frame_sizes = <<>>
        /\ result = no_result
        /\ args = <<>>
        /\ residual_block = <<>>
        /\ pc = "encode_alac"
        /\ codec_unused

\* encode_alac up to its read loop: the callback is added, then the
\* placeholder mdat header written
WriteMdatHeader ==
    /\ pc = "encode_alac"
    /\ bs' = write(32, 0) \o mdat_bytes
    /\ frame_byte_size' = frame_byte_size + byte_counter(bs')
    /\ pc' = "read"
    /\ UNCHANGED <<encoder, pcm, frameset, frame_no, rec, frames, br_pos, c,
                   block_size, samples, status, framelist, pcmreader,
                   frame_sizes, unit_vars>>

\* the state after a pass of the read loop that wrote frameset
FramesetLogged(channels, written) ==
    /\ pcm' = channels
    /\ frameset' = channels
    /\ bs' = bs \o written.bits
    /\ rec' = written.rec
    /\ frame_byte_size' = byte_counter(written.bits)
    /\ frame_sizes' = push_frame_size(frame_sizes,
                          byte_counter(written.bits), Len(channels[1]))

\* one pass of the read loop: a block is read, its frameset written and
\* its size logged
EncodeBlock ==
    /\ pc = "read"
    /\ pcmreader.read < Len(pcmreader.blocks)
    /\ pcmreader' = [pcmreader EXCEPT !.read = @ + 1]
    /\ FramesetLogged(pcmreader.blocks[pcmreader.read + 1],
                      write_frameset(encoder, rec,
                                     pcmreader.blocks[pcmreader.read + 1]))
    /\ UNCHANGED <<encoder, frame_no, frames, pc, br_pos, c, block_size,
                   samples, status, framelist, unit_vars>>

\* the read that returns 0 (end of the source, or its error) and the rest
\* of encode_alac
EncodeEnd ==
    /\ pc = "read"
    /\ pcmreader.read = Len(pcmreader.blocks)
    /\ pcmreader' = [pcmreader EXCEPT !.status = pcmreader.ends]
    /\ IF pcmreader.ends = "PCM_OK"
       THEN /\ bs' = write(32, total_mdat_size(frame_sizes))
                     \o SubSeq(bs, 33, Len(bs))
            /\ frame_sizes' = reverse_frame_sizes(frame_sizes)
            /\ result' = [no_result EXCEPT
                             !.null = (frame_sizes = <<>>),
                             !.frame_sizes = reverse_frame_sizes(frame_sizes),
                             !.freed = {"samples", "channels", "mdat_header",
                                        "encoder"}]
       ELSE /\ bs' = bs
            /\ frame_sizes' = <<>>
            /\ result' = [no_result EXCEPT
                             !.freed = {"samples", "channels", "mdat_header",
                                        "encoder", "frame_sizes"}]
    /\ pc' = "encoded"
    /\ UNCHANGED <<encoder, pcm, frameset, frame_no, rec, frames, br_pos, c,
                   block_size, samples, status, framelist, frame_byte_size,
                   args, residual_block>>

\* encoders_encode_alac once encode_alac returned: the sizes as a Python
\* value and the output flushed, or NULL and the output freed unflushed
ReturnSizes ==
    /\ pc = "encoded"
    /\ IF ~result.null
       THEN /\ result' = [result EXCEPT
                             !.frame_byte_sizes =
                                 [k \in 1..Len(frame_sizes) |->
                                     frame_sizes[k].byte_size],
                             !.total_pcm_frames =
                                 total_pcm_frames(frame_sizes),
                             !.flushed = TRUE,
                             !.freed = @ \cup {"output", "frame_sizes"}]
            /\ frame_sizes' = <<>>
       ELSE /\ result' = [result EXCEPT !.freed = @ \cup {"output"}]
            /\ frame_sizes' = frame_sizes
    /\ pc' = "returned"
    /\ UNCHANGED <<encoder, pcm, frameset, frame_no, bs, rec, frames, br_pos,
                   c, block_size, samples, status, framelist, pcmreader,
                   frame_byte_size, args, residual_block>>

EncodeNext == WriteMdatHeader \/ EncodeBlock \/ EncodeEnd \/ ReturnSizes

EncodeSpec == EncodeInit /\ [][EncodeNext]_vars

(***************************************************************************)
(* One read call of the decoder over a stream that need not come from the  *)
(* encoder: framesets put together field by field, well-formed or not.     *)
(* Of pcm only the number of channels is used: the stream's channel count. *)
(***************************************************************************)
\* block_size of the stream's parameters
StreamBlockSize == 3

\* a frame put together field by field: code is the 3-bit value ahead of
\* it, count the explicit sample count (0 for none), kind its body:
\* uncompressed, compressed, or compressed with prediction_type 1 in
\* subframe header 0 ("type_0") or 1 ("type_1")
StreamFrames ==
    [code : {0, 1, 2, 6},
     count : {0, StreamBlockSize - 1, StreamBlockSize + 1},
     kind : {"uncompressed", "compressed", "type_0", "type_1"}]

\* the frames no check of the decoder rejects
SoundFrames ==
    { f \in StreamFrames : /\ f.code \in {0, 1}
                           /\ f.count <= StreamBlockSize
                           /\ f.kind \in {"uncompressed", "compressed"} }

\* compressed frames whose subframe headers carry four coefficients
\* ("order_4"), as the encoder writes them, for a block shorter than five
\* samples
PredictedFrames ==
    [code : {0, 1}, count : {0, StreamBlockSize - 1}, kind : {"order_4"}]

stream_subframe_header(prediction_type) ==
    write(4, prediction_type) \o write(4, 9) \o write(3, 4) \o write(5, 0)

\* the body of a frame of n PCM frames and channel_count channels
stream_body(kind, channel_count, n) ==
    IF kind = "uncompressed"
    THEN write_interleaved(16,
             [ch \in 1..channel_count |-> [i \in 1..n |-> (100 * ch) + i]],
             0, 0)
    ELSE write(8, INTERLACING_SHIFT) \o write(8, 0)
         \o (IF kind = "order_4"
             THEN write_subframe_header(4, <<0, 0, 0, 0>>)
             ELSE stream_subframe_header(IF kind = "type_0" THEN 1 ELSE 0))
         \o (IF channel_count = 2
             THEN IF kind = "order_4"
                  THEN write_subframe_header(4, <<0, 0, 0, 0>>)
                  ELSE stream_subframe_header(IF kind = "type_1" THEN 1
                                              ELSE 0)
             ELSE <<>>)
         \o encode_residuals(16 + (channel_count - 1),
                             [i \in 1..n |-> 40 + i]).bits
         \o (IF channel_count = 2
             THEN encode_residuals(17, [i \in 1..n |-> 50 - i]).bits
             ELSE <<>>)

stream_frame(f) ==
    write(3, f.code) \o write(16, 0)
    \o write(1, IF f.count = 0 THEN 0 ELSE 1) \o write(2, 0)
    \o write(1, IF f.kind = "uncompressed" THEN 1 ELSE 0)
    \o (IF f.count = 0 THEN <<>> ELSE write(32, f.count))
    \o stream_body(f.kind, IF f.code = 1 THEN 2 ELSE 1,
                   IF f.count = 0 THEN StreamBlockSize ELSE f.count)

RECURSIVE stream_frames(_)
stream_frames(fs) ==
    IF fs = <<>> THEN <<>>
    ELSE stream_frame(Head(fs)) \o stream_frames(Tail(fs))

\* the frames, the value 7 and the padding; cut drops the last byte
stream_frameset(fs, cut) ==
    LET whole == byte_align(stream_frames(fs) \o write(3, 7))
    IN  IF cut THEN SubSeq(whole, 1, Len(whole) - 8) ELSE whole

\* the framesets handed to the decoder: up to two frames of any kind, or
\* three sound ones
Streams ==
    {<<>>} \cup { <<f>> : f \in StreamFrames }
    \cup { <<f, g>> : f \in StreamFrames, g \in StreamFrames }
    \cup { <<f, g, h>> : f \in SoundFrames, g \in SoundFrames,
                         h \in SoundFrames }
    \cup { <<f>> : f \in PredictedFrames }
    \cup { <<f, g>> : f \in PredictedFrames, g \in PredictedFrames }

DecodeInit ==
    \E channel_count \in 1..3, fs \in Streams, cut \in BOOLEAN :
        /\ encoder = [block_size |-> StreamBlockSize, bits_per_sample |-> 16,
                      lp |-> [q4 |-> <<0, 0, 0, 0>>,
                              q8 |-> <<0, 0, 0, 0, 0, 0, 0, 0>>]]
        /\ pcm = [ch \in 1..channel_count |-> <<>>]
        /\ frameset = <<>>
        /\ frame_no = 0
        /\ bs = stream_frameset(fs, cut)
        /\ rec = [interlaced_frame |-> <<>>, best_interlaced_frame |-> <<>>]
        /\ frames = <<>>
        /\ pc = "decode_frameset"
        /\ br_pos = 0
        /\ c = 0
        /\ block_size = StreamBlockSize
        /\ samples = <<>>
        /\ status = ""
        /\ framelist = no_framelist
        /\ file_unused
        /\ unit_unused

DecodeNext == DecodeFrame \/ DecodeEnd \/ ReturnFrameList

DecodeSpec == DecodeInit /\ [][DecodeNext]_vars

(***************************************************************************)
(* The residual coder alone: encode_residuals against read_residual_block  *)
(* on one vector of residuals, write_residual against read_residual on     *)
(* one value.                                                              *)
(***************************************************************************)
\* residual vectors of 1..MaxResiduals values
MaxResiduals == 5

\* the values they are made of; the last one folds to more than 0xFFFF
ResidualValues == {0, 1, -2, 300, 40000}

ResidualVectors(sample_size) ==
    UNION { [1..n -> { r \in ResidualValues : Folded(r) < 2 ^ sample_size }] :
            n \in 1..MaxResiduals }

\* values around the multiples of 2^k - 1, which is where the code changes
\* its length, up to the escape and beyond
CodeValues(k, sample_size) ==
    { v \in { (m * ((2 ^ k) - 1)) + l :
                m \in 0..10, l \in {0, 1, 2, (2 ^ k) - 3, (2 ^ k) - 2} } :
      v >= 0 /\ v < 2 ^ sample_size }

ResidualInit ==
    /\ encoder = [block_size |-> BlockSize, bits_per_sample |-> 16,
                  lp |-> [q4 |-> <<0, 0, 0, 0>>,
                          q8 |-> <<0, 0, 0, 0, 0, 0, 0, 0>>]]
    /\ \/ \E sample_size \in {16, 17} :
             \E residuals \in ResidualVectors(sample_size) :
               args = [call |-> "encode_residuals",
                       sample_size |-> sample_size, residuals |-> residuals,
                       k |-> 0]
       \/ \E k \in 1..maximum_k, sample_size \in {16, 17, 24} :
             \E value \in CodeValues(k, sample_size) :
               args = [call |-> "write_residual",
                       sample_size |-> sample_size, residuals |-> <<value>>,
                       k |-> k]
    /\ result = [residual |-> <<>>, pos |-> 0]
    /\ residual_block = <<>>
    /\ pc = "call"
    /\ codec_unused
    /\ file_unused

\* encode_residuals(encoder, residual_block, sample_size, residual_count,
\* residuals)
EncodeResiduals ==
    /\ pc = "call"
    /\ args.call = "encode_residuals"
    /\ residual_block' = encode_residuals(args.sample_size,
                                          args.residuals).bits
    /\ pc' = "written"
    /\ UNCHANGED <<encoder, pcm, frameset, frame_no, bs, rec, frames, br_pos,
                   c, block_size, samples, status, framelist, file_vars, args,
                   result>>

\* read_residual_block(br, params, sample_size, block_size, residual) at
\* the start of the bits written
ReadResidualBlock ==
    /\ pc = "written"
    /\ args.call = "encode_residuals"
    /\ result' = read_residual_block(residual_block, 0, args.sample_size,
                                     Len(args.residuals))
    /\ pc' = "called"
    /\ UNCHANGED <<encoder, pcm, frameset, frame_no, bs, rec, frames, br_pos,
                   c, block_size, samples, status, framelist, file_vars, args,
                   residual_block>>

\* write_residual(residual_block, value, k, sample_size)
WriteResidual ==
    /\ pc = "call"
    /\ args.call = "write_residual"
    /\ residual_block' = write_residual(args.residuals[1], args.k,
                                        args.sample_size)
    /\ pc' = "written"
    /\ UNCHANGED <<encoder, pcm, frameset, frame_no, bs, rec, frames, br_pos,
                   c, block_size, samples, status, framelist, file_vars, args,
                   result>>

\* read_residual(br, k, sample_size) at the start of the bits written
ReadResidual ==
    /\ pc = "written"
    /\ args.call = "write_residual"
    /\ result' = [residual |->
                      <<read_residual(residual_block, 0, args.k,
                                      args.sample_size).val>>,
                  pos |-> read_residual(residual_block, 0, args.k,
                                        args.sample_size).pos]
    /\ pc' = "called"
    /\ UNCHANGED <<encoder, pcm, frameset, frame_no, bs, rec, frames, br_pos,
                   c, block_size, samples, status, framelist, file_vars, args,
                   residual_block>>

ResidualNext ==
    EncodeResiduals \/ ReadResidualBlock \/ WriteResidual \/ ReadResidual

ResidualSpec == ResidualInit /\ [][ResidualNext]_vars

(***************************************************************************)
(* The loops of the residual coder, one pass of the while loop an action:  *)
(* encode_residuals over a residual vector, read_residual_block over the   *)
(* bits of a stream.  result is the loop's state after the pass:           *)
(* i, history and sign_modifier, and what the pass did.                    *)
(***************************************************************************)
\* a faulty update, to be told apart from updated_history: the residual is
\* left out and the history halved
halved_history(history, unsigned_i) == history \div 2

\* "history += (int)(unsigned_i * history_multiplier) -
\* ((history * (int)history_multiplier) >> 9)"
updated_history(history, unsigned_i) ==
    (history + (unsigned_i * history_multiplier))
    - ((history * history_multiplier) \div 512)

\* the bits write_residual writes for (unsigned)(value): a negative value
\* converts to at least 2^31, which is coded as an escape in its low
\* sample_size bits
written_residual(value, k, sample_size) ==
    IF value >= 0 THEN write_residual(value, k, sample_size)
    ELSE write(9, 511) \o write(sample_size, value % (2 ^ sample_size))

\* the state of encode_residuals before the first pass
encode_residuals_entry(history) ==
    [i |-> 0, history |-> history, sign_modifier |-> 0, bits |-> <<>>,
     overflow |-> FALSE, passes |-> 0, value |-> 0, k |-> <<>>, LOG2 |-> <<>>,
     zero_run |-> FALSE, zeroes |-> 0, remaining |-> 0]

\* the state once the residual's code is written and i incremented, no
\* zero-run following
residual_written(st, value, k, code, history) ==
    [i |-> st.i + 1, history |-> history, sign_modifier |-> 0,
     bits |-> st.bits \o code, overflow |-> FALSE, passes |-> st.passes + 1,
     value |-> value, k |-> <<k>>, LOG2 |-> <<(st.history \div 512) + 3>>,
     zero_run |-> FALSE, zeroes |-> 0, remaining |-> 0]

\* the state once the zero-run after the residual is written: history is
\* the updated history the zero-run parameter is computed from
zero_run_written(st, value, k, code, history, zeroes, remaining) ==
    [i |-> st.i + 1 + zeroes, history |-> 0,
     sign_modifier |-> IF zeroes < 65535 THEN 1 ELSE 0,
     bits |-> st.bits \o code
              \o written_residual(zeroes,
                     MIN((7 - LOG2(history)) + ((history + 16) \div 64),
                         maximum_k), 16),
     overflow |-> FALSE, passes |-> st.passes + 1, value |-> value,
     k |-> <<k, MIN((7 - LOG2(history)) + ((history + 16) \div 64),
                    maximum_k)>>,
     LOG2 |-> <<(st.history \div 512) + 3, history>>,
     zero_run |-> TRUE, zeroes |-> zeroes, remaining |-> remaining]

\* the rest of a pass once unsigned_i passed the overflow test
residual_coded(sample_size, residuals, st, unsigned_i, k) ==
    IF unsigned_i <= 65535
    THEN IF updated_history(st.history, unsigned_i) < 128
            /\ st.i + 1 < Len(residuals)
         THEN zero_run_written(st, unsigned_i - st.sign_modifier, k,
                  written_residual(unsigned_i - st.sign_modifier, k,
                                   sample_size),
                  updated_history(st.history, unsigned_i),
                  CountZeroes(residuals, st.i + 1),
                  Len(residuals) - (st.i + 1))
         ELSE residual_written(st, unsigned_i - st.sign_modifier, k,
                  written_residual(unsigned_i - st.sign_modifier, k,
                                   sample_size),
                  updated_history(st.history, unsigned_i))
    ELSE residual_written(st, unsigned_i - st.sign_modifier, k,
             written_residual(unsigned_i - st.sign_modifier, k, sample_size),
             65535)

\* one pass of the while loop of encode_residuals
encode_pass(sample_size, residuals, st) ==
    IF Folded(residuals[st.i + 1]) >= 2 ^ sample_size
    THEN [st EXCEPT !.overflow = TRUE]
    ELSE residual_coded(sample_size, residuals, st,
                        Folded(residuals[st.i + 1]),
                        MIN(LOG2((st.history \div 512) + 3), maximum_k))

\* a faulty clamp, to be told apart from clamped_run: the run length as
\* read
unclamped_run(zero_block_size, block_size_, i) == zero_block_size

\* "zero_block_size = MIN(zero_block_size, block_size - i)"
clamped_run(zero_block_size, block_size_, i) ==
    MIN(zero_block_size, block_size_ - i)

\* the state of read_residual_block before the first pass; residual is the
\* caller's array, written lists the indices stored to, in storing order
read_residual_block_entry(block_size_, history) ==
    [i |-> 0, history |-> history, sign_modifier |-> 0, pos |-> 0,
     residual |-> [x \in 1..block_size_ |-> 0], written |-> <<>>,
     passes |-> 0, zero_run |-> FALSE, run |-> 0]

\* "residual[i++] = value" and the "residual[i++] = 0" that follow it,
\* zeroes of them; a store at block_size or beyond is listed in written
\* and leaves the array
stored(st, block_size_, value, zeroes) ==
    [st EXCEPT
       !.i = st.i + 1 + zeroes,
       !.residual = [x \in 1..block_size_ |->
                        IF x = st.i + 1 THEN value
                        ELSE IF x > st.i + 1 /\ x <= st.i + 1 + zeroes THEN 0
                        ELSE st.residual[x]],
       !.written = st.written \o [x \in 1..(1 + zeroes) |-> (st.i + x) - 1],
       !.passes = st.passes + 1]

\* the state after a pass without a zero-run
residual_stored(st, block_size_, code, unsigned_residual, history) ==
    [stored(st, block_size_, Unfolded(unsigned_residual), 0) EXCEPT
       !.history = history, !.sign_modifier = 0, !.pos = code.pos,
       !.zero_run = FALSE, !.run = 0]

\* the state after a pass with a zero-run of zero_block_size residuals,
\* run.val the length read
zero_run_stored(st, block_size_, unsigned_residual, run, zero_block_size) ==
    [stored(st, block_size_, Unfolded(unsigned_residual), zero_block_size)
     EXCEPT
       !.history = 0,
       !.sign_modifier = IF zero_block_size <= 65535 THEN 1 ELSE 0,
       !.pos = run.pos, !.zero_run = TRUE, !.run = run.val]

\* the rest of a pass once the residual's code was read
residual_decoded(bits, block_size_, st, code, history) ==
    IF zero_run_follows(history, st.i + 1, block_size_)
    THEN LET run == read_residual(bits, code.pos,
                        MIN((7 - LOG2(history)) + ((history + 16) \div 64),
                            maximum_k), 16)
         IN  zero_run_stored(st, block_size_, code.val + st.sign_modifier,
                 run,
                 IF run.val > 0
                 THEN clamped_run(run.val, block_size_, st.i + 1)
                 ELSE run.val)
    ELSE residual_stored(st, block_size_, code, code.val + st.sign_modifier,
                         history)

\* one pass of the while loop of read_residual_block
read_pass(bits, sample_size, block_size_, st) ==
    LET code == read_residual(bits, st.pos,
                    MIN(LOG2((st.history \div 512) + 3), maximum_k),
                    sample_size)
    IN  residual_decoded(bits, block_size_, st, code,
            next_history(st.history, code.val + st.sign_modifier))

\* streams of up to MaxStreamBits bits
MaxStreamBits == 9

\* residuals to read of a stream
MaxStreamResiduals == 3

\* the history the loops start with: the default and values around the
\* zero-run threshold 128 and the parameter steps
InitialHistories == {1, initial_history, 127, 128, 600}

\* every stream of up to MaxStreamBits bits, and streams holding an escape
\* code: a residual, a zero-run of 0xFFFF, a zero-run of 2
BitStreams ==
    UNION { [1..n -> {0, 1}] : n \in 0..MaxStreamBits }
    \cup { <<0>> \o Ones(25) \o tail : tail \in {<<>>, <<0>>, <<1, 0>>} }
    \cup { <<0>> \o Ones(9) \o write(16, 2) \o tail :
           tail \in {<<>>, <<0>>} }
    \cup { Ones(9) \o write(16, v) \o tail :
           v \in {0, 1, 65535}, tail \in {<<>>, <<0, 0>>} }

CoderInit ==
    /\ encoder = [block_size |-> BlockSize, bits_per_sample |-> 16,
                  lp |-> [q4 |-> <<0, 0, 0, 0>>,
                          q8 |-> <<0, 0, 0, 0, 0, 0, 0, 0>>]]
    /\ \E history \in InitialHistories :
         \/ \E sample_size \in {16, 17} :
               \E residuals \in ResidualVectors(sample_size) :
                 /\ args = [call |-> "encode_residuals",
                            sample_size |-> sample_size,
                            residuals |-> residuals, bits |-> <<>>,
                            block_size |-> Len(residuals),
                            history |-> history]
                 /\ result = encode_residuals_entry(history)
         \/ \E bits \in BitStreams, n \in 0..MaxStreamResiduals :
               /\ args = [call |-> "read_residual_block",
                          sample_size |-> 16, residuals |-> <<>>,
                          bits |-> bits, block_size |-> n,
                          history |-> history]
               /\ result = read_residual_block_entry(n, history)
    /\ residual_block = <<>>
    /\ pc = "while"
    /\ codec_unused
    /\ file_unused

\* one pass of "while (i < residual_count)"; a residual overflow leaves the
\* function by longjmp
EncodePass ==
    /\ pc = "while"
    /\ args.call = "encode_residuals"
    /\ result.i < Len(args.residuals)
    /\ result' = encode_pass(args.sample_size, args.residuals, result)
    /\ residual_block' = result'.bits
    /\ pc' = IF result'.overflow THEN "longjmp" ELSE "while"
    /\ UNCHANGED <<encoder, pcm, frameset, frame_no, bs, rec, frames, br_pos,
                   c, block_size, samples, status, framelist, file_vars,
                   args>>

\* one pass of "while (i < block_size)"
ReadPass ==
    /\ pc = "while"
    /\ args.call = "read_residual_block"
    /\ result.i < args.block_size
    /\ result' = read_pass(args.bits, args.sample_size, args.block_size,
                           result)
    /\ UNCHANGED <<encoder, pcm, frameset, frame_no, bs, rec, frames, pc,
                   br_pos, c, block_size, samples, status, framelist,
                   file_vars, args, residual_block>>

CoderNext == EncodePass \/ ReadPass

CoderSpec == CoderInit /\ [][CoderNext]_vars

(***************************************************************************)
(* Channel decorrelation alone: correlate_channels on a pair of channels,  *)
(* then the decoder's decorrelation of the result.                         *)
(***************************************************************************)
\* the two samples of a PCM frame: equal, opposite, and the ends of the
\* 16-bit and 23-bit ranges (the product of a difference and a leftweight
\* of 255 stays below 2^31)
SamplePairs ==
    { <<0, 0>>, <<1, 0>>, <<0, 1>>, <<5, -7>>, <<-7, 5>>, <<-3, -3>>,
      <<32767, -32768>>, <<-32768, 32767>>, <<4194303, -4194304>>,
      <<-4194304, 4194303>> }

\* pairs of channels of two samples each
ChannelPairs ==
    { << <<p[1], q[1]>>, <<p[2], q[2]>> >> : p \in SamplePairs,
                                             q \in SamplePairs }

ChannelInit ==
    /\ encoder = [block_size |-> BlockSize, bits_per_sample |-> 16,
                  lp |-> [q4 |-> <<0, 0, 0, 0>>,
                          q8 |-> <<0, 0, 0, 0, 0, 0, 0, 0>>]]
    /\ \E channels \in ChannelPairs, leftweight \in 0..255 :
         args = [call |-> "correlate_channels", channels |-> channels,
                 interlacing_shift |-> INTERLACING_SHIFT,
                 interlacing_leftweight |-> leftweight]
    /\ result = <<>>
    /\ residual_block = <<>>
    /\ pc = "call"
    /\ codec_unused
    /\ file_unused

\* correlate_channels(channels, interlacing_shift, interlacing_leftweight,
\* correlated_channels): result is correlated_channels
CorrelateChannels ==
    /\ pc = "call"
    /\ args.call = "correlate_channels"
    /\ result' = correlate_channels(args.channels, args.interlacing_shift,
                                    args.interlacing_leftweight)
    /\ pc' = "correlated"
    /\ UNCHANGED <<encoder, pcm, frameset, frame_no, bs, rec, frames, br_pos,
                   c, block_size, samples, status, framelist, file_vars, args,
                   residual_block>>

\* the end of decode_compressed_frame for two channels: decorrelate_channels
\* when the leftweight is above 0, memcpy otherwise.  rec keeps what was
\* computed, samples channel_0 and channel_1 of a process that went on.
DecorrelateChannels ==
    /\ pc = "correlated"
    /\ rec' = IF args.interlacing_leftweight > 0
              THEN decorrelate_channels(Len(result[1]),
                       args.interlacing_shift, args.interlacing_leftweight,
                       result[1], result[2])
              ELSE [left |-> result[1], right |-> result[2],
                    undefined |-> FALSE]
    /\ \E outcome \in Outcomes(rec'.undefined) :
         IF outcome = "crash"
         THEN status' = "crash" /\ samples' = <<>>
         ELSE status' = "OK" /\ samples' = <<rec'.left, rec'.right>>
    /\ pc' = "decoded"
    /\ UNCHANGED <<encoder, pcm, frameset, frame_no, bs, frames, br_pos, c,
                   block_size, framelist, file_vars, unit_vars>>

ChannelNext == CorrelateChannels \/ DecorrelateChannels

ChannelSpec == ChannelInit /\ [][ChannelNext]_vars

(***************************************************************************)
(* Properties.  frames records every write_frame call, so the bits of the  *)
(* k-th frame are those of bs between frames[k].start and frames[k].stop,  *)
(* the 3-bit channel code first.                                           *)
(***************************************************************************)
\* write_frameset has returned and decode_frameset has not read a bit yet
FramesetWritten == pc = "decode_frameset" /\ br_pos = 0

FrameBits(k) == SubSeq(bs, frames[k].start + 1, frames[k].stop)

\* bits of frame k ahead of its body: 3-bit code and 20 or 52 header bits
BodyStart(k) ==
    frames[k].start + 3
    + (IF Len(frames[k].channels[1]) = encoder.block_size THEN 20 ELSE 52)

\* decode_frame applied where frame k starts
DecodedFrame(k) ==
    decode_frame(bs, frames[k].start + 3, encoder.block_size,
                 encoder.bits_per_sample, Len(frames[k].channels))

\* channels with every sample reduced to its low bits_per_sample bits
Reduced(bits_per_sample, channels) ==
    [ch \in 1..Len(channels) |->
        [i \in 1..Len(channels[ch]) |->
            TRUNCATE_BITS(channels[ch][i], bits_per_sample)]]

\* C1: for a block of 1..8 channels whose samples lie in the signed range of
\* bits_per_sample, the read call that decodes the frameset the encoder
\* wrote returns OK and yields the block itself, channel for channel and
\* sample for sample.
C1_RoundTrip ==
    (pc = "done" /\ Len(pcm) <= 8 /\ InRange(encoder.bits_per_sample, pcm))
    => (status = "OK" /\ samples = pcm)

\* what C2 says of frame k after a residual overflow, up to the decoded
\* samples: the output holds the channel code and one uncompressed frame
\* and nothing of the attempt, and write_frameset went on to its end
FallbackFrame(k) ==
    /\ FrameBits(k) = write(3, Len(frames[k].channels) - 1)
                      \o write_uncompressed_frame(encoder, frames[k].channels)
    /\ read(bs, frames[k].start + 22, 1) = 1
    /\ Len(frames) = Len(frameset_layout(Len(pcm)))
    /\ DecodedFrame(k).status = "OK"
    /\ DecodedFrame(k).pos = frames[k].stop

C3_FramesetStructure ==
    /\ FramesetWritten =>
           /\ Len(frames) >= 1
           /\ frames[1].start = 0
           /\ \A k \in 1..Len(frames) :
                  /\ read(bs, frames[k].start, 3) \in {0, 1}
                  /\ k < Len(frames) => frames[k + 1].start = frames[k].stop
           /\ read(bs, frames[Len(frames)].stop, 3) = 7
           /\ Len(bs) = reader_byte_align(frames[Len(frames)].stop + 3)
           /\ \A i \in (frames[Len(frames)].stop + 4)..Len(bs) : bs[i] = 0
    /\ pc = "done" => (status = "OK" /\ br_pos = Len(bs))

\* the frame order C4 lists for N channels
ListedLayout(N) ==
    CASE N = 1 -> << <<0>> >>
      [] N = 2 -> << <<0, 1>> >>
      [] N = 3 -> << <<2>>, <<0, 1>> >>
      [] N = 4 -> << <<2>>, <<0, 1>>, <<3>> >>
      [] N = 5 -> << <<2>>, <<0, 1>>, <<3, 4>> >>
      [] N = 6 -> << <<2>>, <<0, 1>>, <<4, 5>>, <<3>> >>
      [] N = 7 -> << <<2>>, <<0, 1>>, <<4, 5>>, <<6>>, <<3>> >>
      [] N = 8 -> << <<2>>, <<6, 7>>, <<0, 1>>, <<4, 5>>, <<3>> >>
      [] OTHER -> [i \in 1..N |-> <<i - 1>>]

\* C4: write_frameset emits the frames of an N-channel block in the listed
\* order, each led by the code of its channel count, and every input
\* channel is carried by exactly one frame with its original samples.
C4_ChannelLayout ==
    FramesetWritten =>
        /\ Len(frames) = Len(ListedLayout(Len(pcm)))
        /\ \A k \in 1..Len(frames) :
               /\ frames[k].indices = ListedLayout(Len(pcm))[k]
               /\ read(bs, frames[k].start, 3) = Len(frames[k].indices) - 1
               /\ frames[k].channels =
                      [j \in 1..Len(frames[k].indices) |->
                          pcm[frames[k].indices[j] + 1]]
        /\ \A ch \in 0..(Len(pcm) - 1) :
               Cardinality({<<k, j>> \in (1..Len(frames)) \X (1..2) :
                               /\ j <= Len(frames[k].indices)
                               /\ frames[k].indices[j] = ch}) = 1

\* a frameset of eight channels and one of more than eight were written
C4_Witness ==
    /\ FramesetWritten
    /\ Len(pcm) >= 8
    /\ Len(frames) = (IF Len(pcm) = 8 THEN 5 ELSE Len(pcm))
    /\ \A ch \in 1..Len(pcm) : Len(pcm[ch]) >= MIN_COMPRESSED_FRAMES

\* C5: in every frame the has_sample_count bit is 1 exactly when the block
\* holds a number of PCM frames other than block_size, in which case the 32
\* bits after the 20 header bits hold that number; and the decoder derives
\* from the header the number of PCM frames encoded.
C5_SampleCount ==
    FramesetWritten =>
        \A k \in 1..Len(frames) :
            /\ read(bs, frames[k].start + 3, 16) = 0
            /\ read(bs, frames[k].start + 19, 1) =
                   (IF Len(frames[k].channels[1]) # encoder.block_size
                    THEN 1 ELSE 0)
            /\ Len(frames[k].channels[1]) # encoder.block_size =>
                   /\ read(bs, frames[k].start + 23, 8) = 0
                   /\ read(bs, frames[k].start + 31, 24) =
                          Len(frames[k].channels[1])
            /\ DecodedFrame(k).block_size = Len(frames[k].channels[1])

\* a short block whose frameset holds an uncompressed frame, a compressed
\* mono frame and a compressed stereo frame
C5_Witness ==
    /\ FramesetWritten
    /\ Len(pcm[1]) # encoder.block_size
    /\ \E k \in 1..Len(frames) : frames[k].overflow
    /\ \E k \in 1..Len(frames) :
           /\ frames[k].attempt /\ ~frames[k].overflow
           /\ Len(frames[k].channels) = 1
    /\ \E k \in 1..Len(frames) :
           /\ frames[k].attempt /\ ~frames[k].overflow
           /\ Len(frames[k].channels) = 2

\* C6: a frame whose channels hold fewer than 10 samples is written
\* uncompressed, without a compressed attempt: not-compressed bit 1,
\* uncompressed_LSBs field 0, then the samples interleaved by channel at
\* bits_per_sample bits each, two's complement, and nothing more.
C6_ShortFrameUncompressed ==
    FramesetWritten =>
        \A k \in 1..Len(frames) :
            Len(frames[k].channels[1]) < 10 =>
                /\ ~frames[k].attempt
                /\ frames[k].tried = <<>>
                /\ read(bs, frames[k].start + 20, 2) = 0
                /\ read(bs, frames[k].start + 22, 1) = 1
                /\ frames[k].stop =
                       BodyStart(k)
                       + (Len(frames[k].channels[1]) * Len(frames[k].channels)
                          * encoder.bits_per_sample)
                /\ \A i \in 1..Len(frames[k].channels[1]) :
                   \A ch \in 1..Len(frames[k].channels) :
                       read_signed(bs,
                           BodyStart(k)
                           + ((((i - 1) * Len(frames[k].channels)) + (ch - 1))
                              * encoder.bits_per_sample),
                           encoder.bits_per_sample)
                       = TRUNCATE_BITS(frames[k].channels[ch][i],
                                       encoder.bits_per_sample)

\* a short stereo frame of 24-bit samples extracted from a larger block
C6_Witness ==
    /\ FramesetWritten
    /\ encoder.bits_per_sample = 24
    /\ Len(pcm) >= 3
    /\ \E k \in 1..Len(frames) :
           /\ Len(frames[k].channels) = 2
           /\ Len(frames[k].channels[1]) = ShortFrames
           /\ frames[k].channels[1] # frames[k].channels[2]

\* the subframes compute_coefficients returned in the candidates of frame k
SubframesOf(k) ==
    UNION { { frames[k].tried[j].sub[n] :
                n \in 1..Len(frames[k].tried[j].sub) } :
            j \in 1..Len(frames[k].tried) }

\* what compute_coefficients returned: order 4 exactly when residual_block4
\* holds fewer bits than residual_block8 plus 64, coefficients and residual
\* block both of the returned order
OrderReturned ==
    \A k \in 1..Len(frames) :
        \A sub \in SubframesOf(k) :
            (sub.nonzero /\ ~sub.overflow) =>
                /\ sub.order \in {4, 8}
                /\ sub.order = 4 <=>
                       Len(sub.residual_block4) < Len(sub.residual_block8) + 64
                /\ sub.order = 4 =>
                       /\ sub.qlp_coefficients = encoder.lp.q4
                       /\ sub.residual = sub.residual_block4
                /\ sub.order = 8 =>
                       /\ sub.qlp_coefficients = encoder.lp.q8
                       /\ sub.residual = sub.residual_block8

\* what reaches the output: in a compressed 16-bit mono frame of a non-zero
\* autocorrelation the subframe header carries the order and coefficients
\* selected by that comparison of the two residual blocks of the samples,
\* and the frame ends with the residual block of that order
OrderWritten ==
    FramesetWritten =>
        \A k \in 1..Len(frames) :
            (/\ Len(frames[k].channels) = 1
             /\ encoder.bits_per_sample = 16
             /\ frames[k].attempt /\ ~frames[k].overflow
             /\ frames[k].tried[1].sub[1].nonzero) =>
                LET block4 == encode_residuals(16,
                                  calculate_residuals(16,
                                      frames[k].channels[1], 4,
                                      encoder.lp.q4)).bits
                    block8 == encode_residuals(16,
                                  calculate_residuals(16,
                                      frames[k].channels[1], 8,
                                      encoder.lp.q8)).bits
                    header == read_subframe_header(bs, BodyStart(k) + 16)
                IN  IF Len(block4) < Len(block8) + 64
                    THEN /\ header.coeff_count = 4
                         /\ header.coeff = encoder.lp.q4
                         /\ SubSeq(bs, header.pos + 1, frames[k].stop)
                                = block4
                    ELSE /\ header.coeff_count = 8
                         /\ header.coeff = encoder.lp.q8
                         /\ SubSeq(bs, header.pos + 1, frames[k].stop)
                                = block8

\* C7: for every channel on the path of a non-zero autocorrelation
\* compute_coefficients returns order 4 exactly when residual_block4 holds
\* fewer bits than residual_block8 plus 64 and order 8 otherwise, and the
\* coefficients and the residual block it hands back (and the frame
\* carries) are both those of the returned order.
C7_OrderSelection == OrderReturned /\ OrderWritten

\* a channel was given order 8, its two residual blocks differing
C7_Witness ==
    \E k \in 1..Len(frames) :
        \E sub \in SubframesOf(k) :
            /\ sub.nonzero /\ ~sub.overflow
            /\ sub.order = 8
            /\ sub.residual_block4 # sub.residual_block8

\* the interlacing_leftweight byte of frame k
Leftweight(k) == read(bs, BodyStart(k) + 8, 8)

\* frame k is a compressed stereo frame
CompressedStereo(k) ==
    /\ Len(frames[k].channels) = 2
    /\ frames[k].attempt
    /\ ~frames[k].overflow

\* the channels write_compressed_frame hands to the predictor
Predicted(k) ==
    IF encoder.bits_per_sample <= 16 THEN frames[k].channels
    ELSE extract_MSBs(encoder.bits_per_sample, frames[k].channels)

\* the candidate of frame k's own channels at a leftweight
Candidate(k, leftweight) ==
    write_interlaced_frame(encoder,
        IF encoder.bits_per_sample <= 16 THEN 0 ELSE 1,
        IF encoder.bits_per_sample <= 16 THEN <<>>
        ELSE extract_LSBs(encoder.bits_per_sample, frames[k].channels, 0, 0),
        INTERLACING_SHIFT, leftweight, Predicted(k)).bits

\* C8: the candidate copied out for a compressed stereo frame is one of
\* minimal bit length over the leftweights 0..4 at shift 2, the smallest
\* leftweight among those of minimal length, and it is the candidate of
\* this frame's channels at that leftweight, not one kept from elsewhere.
C8_SmallestCandidate ==
    FramesetWritten =>
        \A k \in 1..Len(frames) :
            CompressedStereo(k) =>
                /\ Len(frames[k].tried) = 5
                /\ \A j \in 1..5 : frames[k].tried[j].leftweight = j - 1
                /\ read(bs, BodyStart(k), 8) = 2
                /\ Leftweight(k) \in 0..4
                /\ frames[k].stop - (frames[k].start + 3)
                       = frames[k].tried[Leftweight(k) + 1].bits
                /\ \A j \in 1..5 :
                       /\ frames[k].tried[j].bits
                              >= frames[k].tried[Leftweight(k) + 1].bits
                       /\ j < Leftweight(k) + 1 =>
                              frames[k].tried[j].bits
                                  > frames[k].tried[Leftweight(k) + 1].bits
                /\ SubSeq(bs, frames[k].start + 4, frames[k].stop)
                       = Candidate(k, Leftweight(k))

\* two different compressed stereo frames of one frameset: the first left
\* the recorders swapped at a leftweight above 0, the second found its
\* best candidate at the first leftweight
C8_Witness ==
    /\ FramesetWritten
    /\ \E k1, k2 \in 1..Len(frames) :
           /\ k1 < k2
           /\ CompressedStereo(k1) /\ CompressedStereo(k2)
           /\ FrameBits(k1) # FrameBits(k2)
           /\ Leftweight(k1) >= 1
           /\ Leftweight(k2) = 0

\* frame k is a compressed stereo frame of two identical channels
IdenticalStereo(k) ==
    /\ CompressedStereo(k)
    /\ frames[k].channels[1] = frames[k].channels[2]

AllZero(values) == \A i \in 1..Len(values) : values[i] = 0

\* C9 as stated: a stereo block of at least 10 samples with identical
\* channels is encoded with interlacing_leftweight 0, and at that
\* leftweight one of the two correlated channels is identically zero.
C9_IdenticalLeftweightZero ==
    FramesetWritten =>
        \A k \in 1..Len(frames) :
            IdenticalStereo(k) =>
                /\ Leftweight(k) = 0
                /\ \E ch \in 1..2 :
                       AllZero(correlate_channels(Predicted(k),
                                   INTERLACING_SHIFT, Leftweight(k))[ch])

\* C9 amended: such a block is encoded with leftweight 0 or 1, 1 exactly
\* when its candidate is shorter than that of leftweight 0; at leftweight 0
\* the channels reach the predictor unchanged, and at every leftweight
\* 1..4 the second correlated channel is identically zero and the first is
\* the input channel.
C9_IdenticalLeftweight ==
    FramesetWritten =>
        \A k \in 1..Len(frames) :
            IdenticalStereo(k) =>
                /\ Leftweight(k) \in {0, 1}
                /\ Leftweight(k) = 1 <=>
                       frames[k].tried[2].bits < frames[k].tried[1].bits
                /\ correlate_channels(Predicted(k), INTERLACING_SHIFT, 0)
                       = Predicted(k)
                /\ \A leftweight \in 1..maximum_interlacing_leftweight :
                       /\ AllZero(correlate_channels(Predicted(k),
                                      INTERLACING_SHIFT, leftweight)[2])
                       /\ correlate_channels(Predicted(k),
                              INTERLACING_SHIFT, leftweight)[1]
                              = Predicted(k)[1]

\* identical channels that are not silent, encoded with leftweight 1
C9_Witness ==
    /\ FramesetWritten
    /\ \E k \in 1..Len(frames) :
           /\ IdenticalStereo(k)
           /\ ~AllZero(Predicted(k)[1])
           /\ Leftweight(k) = 1

\* frame k holds at least 10 samples a channel, all of them zero
ZeroBlock(k) ==
    /\ Len(frames[k].channels[1]) >= 10
    /\ \A ch \in 1..Len(frames[k].channels) : AllZero(frames[k].channels[ch])

\* the subframe headers of frame k as the decoder reads them
SubframeHeaders(k) ==
    read_subframe_headers(bs, Len(frames[k].channels), 0,
        [status |-> "OK", pos |-> BodyStart(k) + 16, headers |-> <<>>])

\* the residual block that follows the headers and the LSBs of frame k
FirstResidualBlock(k) ==
    read_residual_block(bs,
        SubframeHeaders(k).pos
        + (IF encoder.bits_per_sample <= 16 THEN 0
           ELSE Len(frames[k].channels[1]) * Len(frames[k].channels) * 8),
        16 + (Len(frames[k].channels) - 1),
        Len(frames[k].channels[1]))

\* C10: a block of at least 10 samples, all zero, takes the path of a zero
\* autocorrelation: every subframe header carries prediction type 0, shift
\* 9, rice modifier 4, coefficient count 4 and four zero coefficients,
\* every residual is 0, and the frame decodes to as many zero samples as
\* the block holds.
C10_ZeroBlock ==
    FramesetWritten =>
        \A k \in 1..Len(frames) :
            ZeroBlock(k) =>
                /\ frames[k].attempt /\ ~frames[k].overflow
                /\ \A sub \in SubframesOf(k) : ~sub.nonzero
                /\ Len(SubframeHeaders(k).headers) = Len(frames[k].channels)
                /\ \A n \in 1..Len(SubframeHeaders(k).headers) :
                       /\ SubframeHeaders(k).headers[n].status = "OK"
                       /\ SubframeHeaders(k).headers[n].prediction_type = 0
                       /\ SubframeHeaders(k).headers[n].shift_needed = 9
                       /\ SubframeHeaders(k).headers[n].rice_modifier = 4
                       /\ SubframeHeaders(k).headers[n].coeff_count = 4
                       /\ SubframeHeaders(k).headers[n].coeff = <<0, 0, 0, 0>>
                /\ AllZero(calculate_residuals(16, Predicted(k)[1], 4,
                                               <<0, 0, 0, 0>>))
                /\ Len(FirstResidualBlock(k).residual)
                       = Len(frames[k].channels[1])
                /\ AllZero(FirstResidualBlock(k).residual)
                /\ DecodedFrame(k).status = "OK"
                /\ ~DecodedFrame(k).undefined
                /\ DecodedFrame(k).pos = frames[k].stop
                /\ DecodedFrame(k).channel = frames[k].channels

\* an all-zero mono block of 24-bit samples shorter than block_size
C10_Witness ==
    /\ FramesetWritten
    /\ encoder.bits_per_sample = 24
    /\ \E k \in 1..Len(frames) :
           /\ ZeroBlock(k)
           /\ Len(frames[k].channels) = 1
           /\ Len(frames[k].channels[1]) # encoder.block_size

\* the residuals are those of a finished calculate_residuals call
ResidualsCalculated == pc = "called" /\ args.call = "calculate_residuals"

\* C11 as stated: every truncated residual (every one but the verbatim
\* first) that calculate_residuals produces has a magnitude below
\* 2^(sample_size - 1).
C11_ResidualMagnitude ==
    ResidualsCalculated =>
        \A i \in 2..Len(result) :
            /\ result[i] < 2 ^ (args.sample_size - 1)
            /\ -result[i] < 2 ^ (args.sample_size - 1)

\* C11: calculate_residuals produces one residual a sample; the first is
\* the first sample verbatim and every other one, warm-up first difference
\* or predicted, lies in the two's complement range of sample_size bits,
\* -2^(sample_size - 1) <= r <= 2^(sample_size - 1) - 1.
C11_ResidualRange ==
    ResidualsCalculated =>
        /\ Len(result) = Len(args.samples)
        /\ result[1] = args.samples[1]
        /\ \A i \in 2..Len(result) :
               /\ result[i] >= -(2 ^ (args.sample_size - 1))
               /\ result[i] <= (2 ^ (args.sample_size - 1)) - 1

\* a call whose warm-up holds the most negative value and whose predicted
\* part wrapped a difference that does not fit sample_size bits
C11_Witness ==
    /\ ResidualsCalculated
    /\ \E i \in 2..(args.order + 1) :
           result[i] = -(2 ^ (args.sample_size - 1))
    /\ \E i \in (args.order + 2)..Len(result) :
           /\ result[i] # 0
           /\ result[i] # args.samples[i] - args.samples[i - 1]

\* encode_alac has returned after a source that ended without error
Encoded == pc = "encoded" /\ pcmreader.status = "PCM_OK"

\* bit offset in bs of the frameset of block k: the 8 bytes of the mdat
\* header and the logged sizes of the framesets ahead of it
RECURSIVE FramesetOffset(_, _)
FramesetOffset(sizes, k) ==
    IF k = 1 THEN 64
    ELSE FramesetOffset(sizes, k - 1) + (8 * sizes[k - 1].byte_size)

\* the frameset of block k written on its own
FramesetAlone(k) ==
    write_frameset(encoder,
        [interlaced_frame |-> <<>>, best_interlaced_frame |-> <<>>],
        pcmreader.blocks[k]).bits

\* C12: after an encode of n blocks from a source that ended without error,
\* the list encode_alac returns has n entries in the order the framesets
\* were written; entry k holds the number of bytes of frameset k alone and
\* the number of PCM frames of block k, the framesets lie in the output
\* one after the other behind the 8 bytes of the mdat header, which no
\* entry counts, and the mdat size field holds 8 plus the logged sizes.
C12_FrameSizes ==
    Encoded =>
        /\ Len(result.frame_sizes) = Len(pcmreader.blocks)
        /\ \A k \in 1..Len(result.frame_sizes) :
               /\ result.frame_sizes[k].pcm_frames_size
                      = Len(pcmreader.blocks[k][1])
               /\ 8 * result.frame_sizes[k].byte_size = Len(FramesetAlone(k))
               /\ SubSeq(bs, FramesetOffset(result.frame_sizes, k) + 1,
                         FramesetOffset(result.frame_sizes, k)
                         + Len(FramesetAlone(k))) = FramesetAlone(k)
        /\ Len(bs) = FramesetOffset(result.frame_sizes,
                                    Len(result.frame_sizes) + 1)
        /\ read(bs, 0, 32) * 8 = Len(bs)

\* three framesets were logged, the first and the last of different sizes
\* in bytes and in PCM frames
C12_Witness ==
    /\ Encoded
    /\ Len(result.frame_sizes) = 3
    /\ result.frame_sizes[1].byte_size # result.frame_sizes[3].byte_size
    /\ result.frame_sizes[1].pcm_frames_size
           # result.frame_sizes[3].pcm_frames_size
    /\ Len(pcmreader.blocks[1]) = 3

\* C13: once encoders_encode_alac has returned: after a read error the
\* result is null whatever was written, the output was freed without being
\* flushed and the encoder's buffers and the recorded sizes were released;
\* after a source that ended without error the result is a non-null list
\* and the mdat size field was patched to the bytes written.
C13_ReadError ==
    pc = "returned" =>
        IF pcmreader.status # "PCM_OK"
        THEN /\ result.null
             /\ ~result.flushed
             /\ {"encoder", "frame_sizes", "output"} \subseteq result.freed
        ELSE /\ ~result.null
             /\ result.flushed
             /\ read(bs, 0, 32) * 8 = Len(bs)

(***************************************************************************)
(* The frame the decoder is about to read, in terms of the stream's bits.  *)
(***************************************************************************)
\* decode_frameset stands at a frame boundary with 3 bits to read
AtBoundary == pc = "decode_frameset" /\ br_pos + 3 <= Len(bs)

\* the 3-bit value at the boundary
BoundaryValue == read(bs, br_pos, 3)

\* the frame at the boundary passes decode_frameset's channel checks
FrameAdmitted ==
    /\ BoundaryValue \in {0, 1}
    /\ c + BoundaryValue + 1 <= Len(pcm)

\* its explicit sample count, -1 for none
ExplicitCount ==
    IF read(bs, br_pos + 19, 1) = 1 THEN read(bs, br_pos + 23, 32) ELSE -1

\* first bit behind its 20 or 52 header bits
BoundaryBody == br_pos + 3 + (IF ExplicitCount = -1 THEN 20 ELSE 52)

\* it is a compressed frame
BoundaryCompressed == read(bs, br_pos + 22, 1) = 0

\* where its subframe header 0 starts and, for a stereo frame whose header
\* 0 has prediction_type 0, its subframe header 1
SubframeHeader0 == BoundaryBody + 16

SubframeHeader1 == SubframeHeader0 + 16 + (16 * read(bs, SubframeHeader0 + 11, 5))

\* the first subframe header of the frame with a prediction_type other than
\* 0 starts at this position, -1 if there is none; its four bits lie within
\* the stream
BadPredictionType ==
    IF read(bs, SubframeHeader0, 4) # 0 /\ SubframeHeader0 + 4 <= Len(bs)
    THEN SubframeHeader0
    ELSE IF /\ BoundaryValue = 1
            /\ read(bs, SubframeHeader0, 4) = 0
            /\ read(bs, SubframeHeader1, 4) # 0
            /\ SubframeHeader1 + 4 <= Len(bs)
    THEN SubframeHeader1
    ELSE -1

\* an admitted compressed frame of a valid size with such a header
BadTypeFrame ==
    /\ AtBoundary
    /\ FrameAdmitted
    /\ ExplicitCount <= encoder.block_size
    /\ BoundaryCompressed
    /\ BadPredictionType # -1

\* C14: a frame with a subframe header whose prediction_type is not 0 makes
\* read_subframe_header return INVALID_PREDICTION_TYPE with only the four
\* type bits of that header read, and decode_frameset return that status
\* with no further frame decoded and nothing more stored; and whenever
\* decode_frameset ends with a status other than OK, the read call raises
\* that error and delivers no frame list and no samples.
C14_NoSamplesOnError ==
    /\ [][BadTypeFrame =>
             /\ read_subframe_header(bs, BadPredictionType).status
                    = "INVALID_PREDICTION_TYPE"
             /\ read_subframe_header(bs, BadPredictionType).pos
                    = BadPredictionType + 4
             /\ status' = "INVALID_PREDICTION_TYPE"
             /\ pc' = "done"
             /\ samples' = samples
             /\ c' = c]_vars
    /\ [](pc = "returned" =>
             /\ (status # "OK" =>
                    /\ framelist.exception = status
                    /\ framelist.samples = <<>>
                    /\ framelist.frames = 0)
             /\ (framelist.samples # <<>> => status = "OK"))

\* a read call that had stored the channels of a first frame when subframe
\* header 1 of the next, stereo, frame carried prediction_type 1, and
\* returned without a frame list
C14_Witness ==
    /\ pc = "returned"
    /\ status = "INVALID_PREDICTION_TYPE"
    /\ samples # <<>>
    /\ BoundaryValue = 1
    /\ read(bs, SubframeHeader0, 4) = 0
    /\ read(bs, SubframeHeader1, 4) = 1
    /\ framelist.samples = <<>>

\* C15: at every frame boundary, with v the 3-bit value read and c the
\* channels decoded so far: v = 7 ends the frameset with OK and the reader
\* byte-aligned; v in 2..6 gives INVALID_FRAME_CHANNEL_COUNT; v in {0, 1}
\* with c + v + 1 above the stream's channel count gives
\* EXCESSIVE_FRAME_CHANNEL_COUNT; both errors come with no bit of the frame
\* read and nothing stored.  So no more channels are stored than the
\* stream has, one or two a frame.
C15_FrameBoundary ==
    /\ [][AtBoundary =>
             /\ (BoundaryValue = 7 =>
                    /\ status' = "OK"
                    /\ pc' = "done"
                    /\ br_pos' = ((br_pos + 3 + 7) \div 8) * 8
                    /\ samples' = samples)
             /\ (BoundaryValue \in 2..6 =>
                    /\ status' = "INVALID_FRAME_CHANNEL_COUNT"
                    /\ pc' = "done"
                    /\ br_pos' = br_pos
                    /\ samples' = samples)
             /\ (BoundaryValue \in {0, 1}
                 /\ c + BoundaryValue + 1 > Len(pcm) =>
                    /\ status' = "EXCESSIVE_FRAME_CHANNEL_COUNT"
                    /\ pc' = "done"
                    /\ br_pos' = br_pos
                    /\ samples' = samples)
             /\ (c' # c => c' = c + BoundaryValue + 1)]_vars
    /\ [](/\ c <= Len(pcm)
          /\ Len(samples) = c
          /\ Len(framelist.samples) <= Len(pcm))

\* a read call that stored the channels of a first frame and then met a
\* sound stereo frame the stream had no room for
C15_Witness ==
    /\ pc = "returned"
    /\ status = "EXCESSIVE_FRAME_CHANNEL_COUNT"
    /\ c >= 1
    /\ c < Len(pcm)
    /\ BoundaryValue = 1

\* the number of PCM frames the frame at the boundary declares
BoundarySize ==
    IF ExplicitCount = -1 THEN encoder.block_size ELSE ExplicitCount

\* decode_frame applied to the frame at the boundary
BoundaryFrame ==
    decode_frame(bs, br_pos + 3, encoder.block_size, encoder.bits_per_sample,
                 BoundaryValue + 1)

C17_ChannelSum ==
    (pc = "returned" /\ status = "OK") =>
        /\ c = Len(pcm)
        /\ Len(framelist.samples) = Len(pcm)

\* compute_coefficients has returned by its path for a zero autocorrelation,
\* with no residual overflow
ZeroPathTaken ==
    /\ pc = "called"
    /\ args.call = "compute_coefficients"
    /\ ~result.nonzero
    /\ ~result.overflow

\* r[0] = s[0] and r[i] = truncate(s[i] - s[i - 1]) from there on
FirstDifferences ==
    [i \in 1..Len(args.samples) |->
        IF i = 1 THEN args.samples[1]
        ELSE TRUNCATE_BITS(args.samples[i] - args.samples[i - 1],
                           args.sample_size)]

\* r[0] = s[0], first differences up to index 4, then the difference to
\* the sample five places back
BaseDifferences ==
    [i \in 1..Len(args.samples) |->
        IF i = 1 THEN args.samples[1]
        ELSE IF i <= 5
        THEN TRUNCATE_BITS(args.samples[i] - args.samples[i - 1],
                           args.sample_size)
        ELSE TRUNCATE_BITS(args.samples[i] - args.samples[i - 5],
                           args.sample_size)]

\* C18 as stated: on the path for a zero autocorrelation compute_coefficients
\* hands back order 4, four zero coefficients and the block of the
\* residuals r[0] = s[0], r[i] = truncate(s[i] - s[i - 1]) for all i >= 1.
C18_ZeroPathFirstDifferences ==
    ZeroPathTaken =>
        /\ result.order = 4
        /\ result.qlp_coefficients = <<0, 0, 0, 0>>
        /\ residual_block
               = encode_residuals(args.sample_size, FirstDifferences).bits

\* C18: on the path for a zero autocorrelation (the samples are zero
\* wherever the Tukey window is not) compute_coefficients hands back order
\* 4, four zero coefficients and the block of the residuals r[0] = s[0],
\* r[i] = truncate(s[i] - s[i - 1]) for 1 <= i <= 4 and
\* r[i] = truncate(s[i] - s[i - 5]) for i >= 5; these are the first
\* differences when the first sample is 0.
C18_ZeroPathResiduals ==
    ZeroPathTaken =>
        /\ result.order = 4
        /\ result.qlp_coefficients = <<0, 0, 0, 0>>
        /\ residual_block
               = encode_residuals(args.sample_size, BaseDifferences).bits
        /\ (args.samples[1] = 0 => BaseDifferences = FirstDifferences)

\* the path was taken for a block whose first and last sample are not 0
C18_Witness ==
    /\ ZeroPathTaken
    /\ args.samples[1] # 0
    /\ args.samples[Len(args.samples)] # 0
    /\ BaseDifferences # FirstDifferences

\* C19: for a residual vector of N >= 1 values whose folded values are all
\* below 2^sample_size, read_residual_block applied to the bits
\* encode_residuals wrote returns the vector and consumes exactly those
\* bits.
C19_Lockstep ==
    (pc = "called" /\ args.call = "encode_residuals") =>
        /\ result.residual = args.residuals
        /\ result.pos = Len(residual_block)

\* C20: for k in 1..maximum_k, an escape width W and a value v below 2^W,
\* read_residual(k, W) applied to the bits of write_residual(v, k, W)
\* returns v and consumes exactly those bits; the bits are nine 1 bits and
\* v in W bits exactly when v / (2^k - 1) > 8, and otherwise do not start
\* with nine 1 bits.
C20_CodeRoundTrip ==
    (pc = "called" /\ args.call = "write_residual") =>
        /\ result.residual = args.residuals
        /\ result.pos = Len(residual_block)
        /\ IF args.residuals[1] \div ((2 ^ args.k) - 1) > 8
           THEN residual_block
                    = Ones(9) \o write(args.sample_size, args.residuals[1])
           ELSE LeadingOnes(residual_block, 0, 0) < 9

\* a value in the last code word short of the escape came back, eight 1
\* bits first and its low part in k bits
C20_Witness ==
    /\ pc = "called"
    /\ args.call = "write_residual"
    /\ args.k >= 2
    /\ args.residuals[1] = (8 * ((2 ^ args.k) - 1)) + ((2 ^ args.k) - 2)
    /\ LeadingOnes(residual_block, 0, 0) = 8
    /\ Len(residual_block) = 9 + args.k
    /\ result.residual = args.residuals

\* encode_residuals left its loop without an overflow
EncoderLeft ==
    /\ args.call = "encode_residuals"
    /\ pc = "while"
    /\ result.i >= Len(args.residuals)

\* read_residual_block left its loop
DecoderLeft ==
    /\ args.call = "read_residual_block"
    /\ result.i >= args.block_size

\* the passes of the two loops add up to the functions: the bits of
\* encode_residuals, the residuals and the position of read_residual_block
PassesAgree ==
    /\ (EncoderLeft /\ args.history = initial_history) =>
           result.bits = encode_residuals(args.sample_size,
                                          args.residuals).bits
    /\ (DecoderLeft /\ args.history = initial_history) =>
           /\ result.residual
                 = read_residual_block(args.bits, 0, args.sample_size,
                                       args.block_size).residual
           /\ result.pos
                 = read_residual_block(args.bits, 0, args.sample_size,
                                       args.block_size).pos

\* C21: after a pass of either loop that wrote or read a zero-run length,
\* history is 0 and sign_modifier is 1 exactly when the run length is below
\* 0xFFFF; after a pass without a zero-run sign_modifier is 0.
C21_ZeroRunState ==
    /\ (result.passes > 0 /\ result.zero_run) =>
           /\ result.history = 0
           /\ result.sign_modifier
                 = (IF (IF args.call = "encode_residuals" THEN result.zeroes
                        ELSE result.run) < 65535
                    THEN 1 ELSE 0)
    /\ (result.passes > 0 /\ ~result.zero_run) => result.sign_modifier = 0

\* C22: for order 4 or 8, signed 16-bit coefficients, shift 9 and samples
\* within the sample_size range, decode_subframe applied to the residuals
\* of calculate_residuals reconstructs every sample s[i].
C22_PredictorLockstep ==
    (/\ pc = "decoded"
     /\ args.call = "calculate_residuals"
     /\ InRange(args.sample_size, <<args.samples>>)
     /\ status = "OK") =>
        samples = <<args.samples>>

\* C23: in decode_subframe, for 16-bit coefficients and samples within the
\* sample_size range (differences of up to sample_size + 1 bits), the
\* product coefficient * (sample - base_sample) and the prediction sum of
\* the first predicted sample do not leave the 32-bit range.
C23_NoWrapAround ==
    (/\ pc = "decoded"
     /\ args.call = "decode_subframe"
     /\ \A i \in 1..(args.order + 1) :
          /\ rec.subframe[i] >= SampleMin(args.sample_size)
          /\ rec.subframe[i] <= SampleMax(args.sample_size)) =>
        ~rec.undefined
\* C24: for shift 2, a leftweight in 1..255 and a pair of equal-length
\* channels (s0, s1), decorrelate_channels applied to the output of
\* correlate_channels returns left = s0 and right = s1, with no int
\* operation leaving its range; for leftweight 0 the encoder and the
\* decoder pass the two channels on unchanged.
C24_DecorrelationRoundTrip ==
    (pc = "decoded" /\ args.call = "correlate_channels") =>
        /\ ~rec.undefined
        /\ status = "OK"
        /\ samples = args.channels
        /\ args.interlacing_leftweight = 0 => result = args.channels

\* the largest leftweight on the largest difference came back
C24_Witness ==
    /\ pc = "decoded"
    /\ args.call = "correlate_channels"
    /\ args.interlacing_leftweight = 255
    /\ args.channels[1][1] = -4194304
    /\ args.channels[2][1] = 4194303
    /\ result # args.channels
    /\ samples = args.channels

\* frame k is a compressed frame of 24-bit samples within their range
Compressed24(k) ==
    /\ encoder.bits_per_sample = 24
    /\ frames[k].attempt
    /\ ~frames[k].overflow
    /\ InRange(24, frames[k].channels)

\* C25: a compressed frame of 24-bit input carries uncompressed_LSBs = 1;
\* after the subframe headers come the low bytes s & 0xFF as 8 raw bits
\* each, sample by sample and within a sample channel by channel; the
\* predictor is fed s >> 8 with sample_size 16 (mono) or 17 (stereo); and
\* the decoder's reassembly of s >> 8 with the low bytes it reads at those
\* places is s, for negative s as well.
C25_UncompressedLSBs ==
    FramesetWritten =>
        \A k \in 1..Len(frames) :
            Compressed24(k) =>
                LET channels == frames[k].channels
                    count == Len(frames[k].channels)
                    LSBs_pos == SubframeHeaders(k).pos
                IN  /\ read(bs, frames[k].start + 20, 2) = 1
                    /\ \A c_ \in 1..count : \A i \in 1..Len(channels[1]) :
                          /\ read(bs, LSBs_pos
                                      + ((((i - 1) * count) + (c_ - 1)) * 8),
                                  8) = channels[c_][i] % 256
                          /\ (Predicted(k)[c_][i] * 256)
                             + (channels[c_][i] % 256) = channels[c_][i]
                    /\ \A j \in 1..Len(frames[k].tried) :
                          frames[k].tried[j].sub
                            = [c_ \in 1..count |->
                                 compute_coefficients(encoder,
                                     (IF count = 1 THEN Predicted(k)
                                      ELSE correlate_channels(Predicted(k),
                                               INTERLACING_SHIFT,
                                               frames[k].tried[j].leftweight)
                                     )[c_],
                                     16 + (count - 1))]
                    /\ \A c_ \in 1..count :
                          apply_LSBs(bs, LSBs_pos, 8, count, c_,
                                     Predicted(k)[c_]) = channels[c_]

\* a compressed 24-bit stereo frame with a negative sample whose low byte
\* is not zero and differs from the other channel's
C25_Witness ==
    /\ FramesetWritten
    /\ \E k \in 1..Len(frames) :
         /\ Compressed24(k)
         /\ Len(frames[k].channels) = 2
         /\ \E i \in 1..Len(frames[k].channels[1]) :
              /\ frames[k].channels[1][i] < 0
              /\ frames[k].channels[1][i] % 256 # 0
              /\ frames[k].channels[1][i] % 256
                    # frames[k].channels[2][i] % 256

\* C26: for samples within the signed range of bits_per_sample (16 or 24),
\* leftweights 0..4 and shift 2, no candidate of a frame raises the
\* residual overflow, a frame of at least 10 samples reaches the output as
\* a compressed frame, and an uncompressed frame is written only for a
\* frame of fewer than 10 samples.
C26_NoResidualOverflow ==
    FramesetWritten =>
        \A k \in 1..Len(frames) :
            InRange(encoder.bits_per_sample, frames[k].channels) =>
                /\ ~frames[k].overflow
                /\ \A sub \in SubframesOf(k) : ~sub.overflow
                /\ frames[k].attempt
                      = (Len(frames[k].channels[1]) >= MIN_COMPRESSED_FRAMES)
                /\ read(bs, frames[k].start + 22, 1)
                      = (IF Len(frames[k].channels[1]) >= 10 THEN 0 ELSE 1)
                /\ Len(frames[k].channels) = 2 /\ frames[k].attempt =>
                      Len(frames[k].tried) = 5

\* a compressed stereo frame of in-range samples, one of them the least
\* value there is, all five leftweights tried
C26_Witness ==
    /\ FramesetWritten
    /\ \E k \in 1..Len(frames) :
         /\ InRange(encoder.bits_per_sample, frames[k].channels)
         /\ Len(frames[k].channels) = 2
         /\ frames[k].channels[1][1] = SampleMin(encoder.bits_per_sample)
         /\ frames[k].channels[2][1] > 0
         /\ Len(frames[k].tried) = 5
         /\ read(bs, frames[k].start + 22, 1) = 0

\* C27: for a compressed frame decode_frame accepts, decode_subframe reads
\* residuals[] and writes subframe[] only at indices below block_size; in
\* particular the indices 0..coeff_count of its warm-up are all below
\* block_size.
C27_DecoderBounds ==
    (/\ AtBoundary
     /\ FrameAdmitted
     /\ BoundaryCompressed
     /\ decode_frame(bs, br_pos + 3, encoder.block_size,
                     encoder.bits_per_sample, BoundaryValue + 1).status = "OK"
     /\ decode_frame(bs, br_pos + 3, encoder.block_size,
                     encoder.bits_per_sample, BoundaryValue + 1).pos
          <= Len(bs)) =>
        LET headers == read_subframe_headers(bs, BoundaryValue + 1, 0,
                           [status |-> "OK", pos |-> BoundaryBody + 16,
                            headers |-> <<>>]).headers
            size == IF ExplicitCount = -1 THEN encoder.block_size
                    ELSE ExplicitCount
        IN  \A h \in 1..Len(headers) :
                \A i \in warm_up_indices(headers[h].coeff_count) : i < size

\* C28: for any stream content, read_residual_block stores to the indices
\* 0..block_size-1 only, each once and in increasing order, a zero-run
\* being clamped to the residuals still missing; it leaves its loop with
\* exactly block_size residuals stored, after at most block_size passes.
C28_ResidualsWritten ==
    args.call = "read_residual_block" =>
        /\ result.i <= args.block_size
        /\ result.written = [x \in 1..result.i |-> x - 1]
        /\ result.passes <= result.i
        /\ DecoderLeft => Len(result.written) = args.block_size

\* a zero-run length of 0xFFFF was read with two residuals missing, and
\* the block ended with its three residuals stored
C28_Witness ==
    /\ DecoderLeft
    /\ args.block_size = 3
    /\ result.zero_run
    /\ result.run = 65535
    /\ result.written = <<0, 1, 2>>
    /\ result.pos <= Len(args.bits)

\* C29: in encode_residuals the value handed to write_residual for a
\* residual, folded value minus sign_modifier, is never negative; when
\* sign_modifier is 1 the next residual is not zero; and a zero-run count
\* is at most the number of residuals that remained.
C29_ValueNotNegative ==
    (args.call = "encode_residuals" /\ result.passes > 0) =>
        /\ result.value >= 0
        /\ (result.sign_modifier = 1 /\ result.i < Len(args.residuals)) =>
               args.residuals[result.i + 1] # 0
        /\ result.zero_run =>
               /\ result.zeroes >= 0
               /\ result.zeroes <= result.remaining

\* a residual was coded with sign_modifier 1, after a zero-run
C29_Witness ==
    /\ args.call = "encode_residuals"
    /\ result.passes >= 2
    /\ ~result.zero_run
    /\ ~result.overflow
    /\ args.residuals[result.i - 1] = 0
    /\ result.value = Folded(args.residuals[result.i]) - 1

\* C30: with initial_history >= 1, every argument of LOG2 in
\* encode_residuals is above 0 and every parameter k handed to
\* write_residual is at least 1.
C30_ParametersPositive ==
    (args.call = "encode_residuals" /\ result.passes > 0) =>
        /\ \A x \in 1..Len(result.LOG2) : result.LOG2[x] > 0
        /\ \A x \in 1..Len(result.k) : result.k[x] >= 1

\* the zero-run parameter was computed from history 1, the least there is
C30_Witness ==
    /\ args.call = "encode_residuals"
    /\ result.zero_run
    /\ result.LOG2 = <<3, 1>>
    /\ result.k = <<1, 7>>

====
